---- MODULE Spec2Model ----
(***************************************************************************)
(* Medifresh Stock: the real-time synchronisation core.                    *)
(*                                                                         *)
(* The specifications of this module:                                      *)
(*   Spec       the client's WebSocketProvider as connection manager:      *)
(*              network presence, sockets, timers, teardown;               *)
(*   FairSpec   Spec with the fairness the liveness claims need;           *)
(*   QueueSpec  the WebSocketProvider's offline queue: sendMessage, the    *)
(*              flush effect and the wire to the relay;                    *)
(*   RelaySpec  the server's relay (the clients set and broadcast) with    *)
(*              the mutation round trip of the stock-manager page;         *)
(*   StoreSpec  the record store behind the mutation endpoints;            *)
(*   EditSpec   the offline queue fed by the edits of the page, with        *)
(*              fairness;                                                  *)
(*   StorageSpec  one call of a storage method on a store, for the claims  *)
(*              about applyArrivals and importStock as functions;          *)
(*   HandlerSpec  concurrent request handlers of the mutation endpoints    *)
(*              over one record, with the suspension points of the store;  *)
(*   DerivedSpec  one call of getStockStatus or getMissingQuantity;        *)
(*   InboxSpec  the message handlers of the client and of the relay on     *)
(*              well-formed and malformed frames;                          *)
(*   PeerSpec   the mutation endpoints and the effect of a peer's page on  *)
(*              the events they broadcast;                                 *)
(*   KeepAliveSpec  the keep-alive pings of the clients through the relay. *)
(* Each specification leaves the variables of the others untouched.        *)
(***************************************************************************)
EXTENDS Integers, Sequences, FiniteSets, TLC

(***************************************************************************)
(* Bounds of the model.                                                    *)
(***************************************************************************)
MaxSockets == 3        \* sockets of one provider that exist at the same time
MaxEvents == 3         \* SyncMessages the page passes to sendMessage
PingWrap == 2          \* the keep-alive pings sent are counted modulo this
MaxChannels == 3       \* connections the relay accepts in a run
MaxIds == 2            \* records created in a run
MaxQuantity == 1       \* numbers in request bodies range over -1..MaxQuantity
MaxStock == 2          \* stored numbers stay within -MaxStock..MaxStock
MaxBatch == 2          \* pairs of an arrival batch
MaxRows == 1           \* rows of an import
MaxRequests == 2       \* mutation requests in flight at the same time
MaxArrival == 2        \* quantities of concurrent requests range over 1..MaxArrival
MaxOld == 1            \* currentStock of the record before the requests: 0..MaxOld
MaxLevel == 20         \* currentStock of the item a status is derived from
MaxPending == 2        \* pendingArrival of that item
MaxThreshold == 10     \* threshold of that item
MaxShelf == 2          \* records of the store a storage call starts from
MaxFrames == 2         \* frames sent to the message handlers
MaxLot == 2            \* pairs or rows of the batch of a storage call

Sockets == 1..MaxSockets
Events == 1..MaxEvents
NoSocket == 0          \* a null ref
Channels == 1..MaxChannels
NoChannel == 0         \* broadcast without excludeClient; a message of the server itself
Ids == 1..MaxIds
BadId == 0             \* an id parseInt turns into NaN
Quantities == -1..MaxQuantity
References == {"a", "A", "b"}
Requests == 1..MaxRequests
Backends == {"MemStorage", "DatabaseStorage"}   \* the two classes exported as storage

VARIABLES
  \* ---- client: WebSocketProvider ----
  lifecycle,            \* "init" | "mounted" | "unmounted"
  navOnline,            \* navigator.onLine
  isOnline,             \* useState(navigator.onLine)
  isConnected,          \* useState(false)
  pendingQueue,         \* useState<SyncMessage[]>([])
  effectDue,            \* the [isConnected, pendingQueue] effect has to run
  wsRef,                \* wsRef.current: a socket or NoSocket
  isConnectingRef,      \* isConnectingRef.current
  reconnectTimeoutRef,  \* "null", or the timer it names is "pending" or "done"
                        \* (fired or cleared: the ref keeps naming it)
  pingIntervalRef,      \* the interval the ref names (by the socket whose onopen set it)
  readyState,           \* readyState of every socket; "NONE" before new WebSocket
  reconnectTimers,      \* number of pending setTimeout callbacks
  pingIntervals,        \* active setInterval callbacks, by the socket of their closure
  pingsSent,            \* pings passed to ws.send, modulo PingWrap
  outbuf,               \* per socket: SyncMessages passed to ws.send, not yet at the relay
  nextEvent,            \* the next SyncMessage the page will produce
  \* ---- client: history ----
  enqLog,               \* events appended to pendingQueue, in order
  flushLog,             \* events the flush effect passed to ws.send, in order
  relayReceived,        \* SyncMessages that reached the relay, in order
  offlineSinceOpen,     \* an offline event was handled and no socket opened since
  sinceOnline,          \* "none" | "clean" | "void": an online event was handled,
                        \* and whether an offline or close event followed it
  offlineEdits,         \* the edits the user made while navigator.onLine was false
  \* ---- relay: routes.ts ----
  clients,              \* the Set<WebSocket>, in insertion order
  chanState,            \* readyState of each connection at the server; "NONE" before it
  sendThrows,           \* connections on which client.send(...) throws
  wire,                 \* per connection: messages of its client on the way to the relay
  delivered,            \* <<to, message, from>>: what broadcast sent to which
                        \* connection since the latest mutation request
  mutation,             \* the latest mutation request: its client, whether the page
                        \* sends a SyncMessage for its kind, its stage, and the peers
                        \* connected when the endpoint handled it
  \* ---- record store: storage.ts behind the endpoints of routes.ts ----
  stock,                \* the Map of records, in insertion order
  nextId,               \* the next identifier randomUUID() yields
  reply,                \* of the latest request: the status and the event broadcast
  \* ---- request handlers: routes.ts over storage.ts, one record ----
  backend,              \* the class behind the exported storage
  row,                  \* the record all requests target: currentStock, pendingArrival
  rowAtStart,           \* the record before any request
  handler,              \* per request: its endpoint, its quantity, its position in the
                        \* handler and the record its select returned
  committed,            \* requests whose write the store has executed
  notified,             \* requests whose broadcast has been emitted
  fetched,              \* per request: whether a peer's re-fetch saw its write, once
                        \* the peer has reacted to the notification of that request
  \* ---- one call of a storage method: storage.ts ----
  op,                   \* the function called ("none": no call)
  args,                 \* its argument: the pairs, or the rows
  before,               \* the records before the call
  returned,             \* Absent before the call returns, then <<what it returned>>
  \* ---- incoming messages: websocket-context.tsx and routes.ts ----
  lastMessage,          \* useState<SyncMessage | null>(null)
  received,             \* history: the frames a message handler has run on, in
                        \* order: by the client (at a socket) or the relay (at a
                        \* connection)
  \* ---- the page of a peer: stock-manager.tsx ----
  cache,                \* the query data of ["/api/stock"]: the records the page shows
  notice                \* Absent, or <<the SyncMessage the peer received last, with
                        \* whether the page's effect has run on it>>

clientVars == <<lifecycle, navOnline, isOnline, isConnected, pendingQueue, effectDue,
                wsRef, isConnectingRef, reconnectTimeoutRef, pingIntervalRef,
                readyState, reconnectTimers, pingIntervals, pingsSent, outbuf,
                nextEvent, enqLog, flushLog, relayReceived, offlineSinceOpen, sinceOnline,
                offlineEdits>>

relayVars == <<clients, chanState, sendThrows, wire, delivered, mutation>>

storeVars == <<stock, nextId, reply>>

handlerVars == <<backend, row, rowAtStart, handler, committed, notified, fetched>>

callVars == <<op, args, before, returned>>

inboxVars == <<lastMessage, received>>

pageVars == <<cache, notice>>

vars == <<clientVars, relayVars, storeVars, handlerVars, callVars, inboxVars, pageVars>>

(***************************************************************************)
(* Helpers.                                                                *)
(***************************************************************************)
Range(s) == {s[i] : i \in DOMAIN s}

CountIn(s, x) == Cardinality({i \in DOMAIN s : s[i] = x})

IsOpen(s) == s # NoSocket /\ readyState[s] = "OPEN"

\* A socket object that nothing can reach any more frees its place in the
\* model: it is closed (its callbacks have run) and no live interval closure
\* or interval ref names it. new WebSocket takes the first free place; wsRef
\* may still name it, connect() overwrites wsRef.
Free(s) ==
  \/ readyState[s] = "NONE"
  \/ readyState[s] = "CLOSED" /\ s \notin pingIntervals /\ pingIntervalRef # s

HasFreshSocket == \E s \in Sockets : Free(s)

FreshSocket == CHOOSE s \in Sockets : Free(s) /\ \A t \in Sockets : t < s => ~Free(t)

(***************************************************************************)
(* connect(): the guard and the creation of the socket.                    *)
(***************************************************************************)
ConnectReturnsEarly == isConnectingRef \/ IsOpen(wsRef)

\* A handler that calls connect() can run when connect() returns early or a
\* socket is left within the bound.
CanCallConnect == ConnectReturnsEarly \/ HasFreshSocket

connect ==
  IF ConnectReturnsEarly
  THEN UNCHANGED <<isConnectingRef, wsRef, readyState>>
  ELSE /\ isConnectingRef' = TRUE
       /\ wsRef' = FreshSocket
       /\ readyState' = [readyState EXCEPT ![FreshSocket] = "CONNECTING"]

(***************************************************************************)
(* The state setters: a change of isConnected or pendingQueue re-renders   *)
(* and makes the flush effect run again.                                   *)
(***************************************************************************)
SetIsConnected(v) ==
  /\ isConnected' = v
  /\ effectDue' = (effectDue \/ (isConnected # v))

(***************************************************************************)
(* Mount effect: add the listeners and make the initial connection.        *)
(***************************************************************************)
Mount ==
  /\ lifecycle = "init"
  /\ lifecycle' = "mounted"
  /\ connect
  /\ effectDue' = TRUE
  /\ UNCHANGED <<navOnline, isOnline, isConnected, pendingQueue, reconnectTimeoutRef,
                 pingIntervalRef, reconnectTimers, pingIntervals, pingsSent, outbuf,
                 nextEvent, enqLog, flushLog, relayReceived>>

(***************************************************************************)
(* Network presence.                                                       *)
(***************************************************************************)
handleOnline ==
  /\ isOnline' = TRUE
  /\ connect

OnlineEvent ==
  /\ ~navOnline
  /\ navOnline' = TRUE
  /\ IF lifecycle = "mounted"
     THEN CanCallConnect /\ handleOnline
     ELSE UNCHANGED <<isOnline, isConnectingRef, wsRef, readyState>>
  /\ UNCHANGED <<lifecycle, isConnected, pendingQueue, effectDue, reconnectTimeoutRef,
                 pingIntervalRef, reconnectTimers, pingIntervals, pingsSent, outbuf,
                 nextEvent, enqLog, flushLog, relayReceived>>

handleOffline ==
  /\ isOnline' = FALSE
  /\ SetIsConnected(FALSE)

OfflineEvent ==
  /\ navOnline
  /\ navOnline' = FALSE
  /\ IF lifecycle = "mounted"
     THEN handleOffline
     ELSE UNCHANGED <<isOnline, isConnected, effectDue>>
  /\ UNCHANGED <<lifecycle, pendingQueue, wsRef, isConnectingRef, reconnectTimeoutRef,
                 pingIntervalRef, readyState, reconnectTimers, pingIntervals, pingsSent,
                 outbuf, nextEvent, enqLog, flushLog, relayReceived>>

(***************************************************************************)
(* The socket callbacks connect() installs on the socket it creates.       *)
(***************************************************************************)
\* An onclose that leaves the interval running.
ClearPingInterval_Keeps == pingIntervals

\* clearInterval(pingIntervalRef.current), when the ref is set.
ClearPingInterval ==
  IF pingIntervalRef # NoSocket THEN pingIntervals \ {pingIntervalRef} ELSE pingIntervals

\* An onclose that clears no timer.
ClearReconnectTimeout_Keeps == reconnectTimers

\* clearTimeout(reconnectTimeoutRef.current), when the ref is set: the number
\* of timers left pending.
ClearReconnectTimeout ==
  IF reconnectTimeoutRef = "pending" THEN reconnectTimers - 1 ELSE reconnectTimers

onopen(s) ==
  /\ isConnectingRef' = FALSE
  /\ SetIsConnected(TRUE)
  /\ pingIntervals' = ClearPingInterval \cup {s}
  /\ pingIntervalRef' = s

\* ws.onerror only repeats two assignments of ws.onclose, and the browser fires
\* error and close of a failed socket in one task: onclose(s) is their sum.
onclose(s) ==
  /\ isConnectingRef' = FALSE
  /\ SetIsConnected(FALSE)
  /\ pingIntervals' = ClearPingInterval
  /\ pingIntervalRef' = NoSocket
  /\ reconnectTimers' = ClearReconnectTimeout + 1
  /\ reconnectTimeoutRef' = "pending"

\* The relay accepts the connection: the socket opens.
SocketOpen(s) ==
  /\ readyState[s] = "CONNECTING"
  /\ readyState' = [readyState EXCEPT ![s] = "OPEN"]
  /\ onopen(s)
  /\ UNCHANGED <<lifecycle, navOnline, isOnline, pendingQueue, wsRef,
                 reconnectTimeoutRef, reconnectTimers, pingsSent, outbuf, nextEvent,
                 enqLog, flushLog, relayReceived>>

\* The connection attempt fails: error, then close.
SocketFail(s) ==
  /\ readyState[s] = "CONNECTING"
  /\ readyState' = [readyState EXCEPT ![s] = "CLOSED"]
  /\ onclose(s)
  /\ UNCHANGED <<lifecycle, navOnline, isOnline, pendingQueue, wsRef, pingsSent,
                 outbuf, nextEvent, enqLog, flushLog, relayReceived>>

\* The relay starts the closing handshake: the browser moves the socket to
\* CLOSING and runs no callback yet.
ClosingStart(s) ==
  /\ readyState[s] = "OPEN"
  /\ readyState' = [readyState EXCEPT ![s] = "CLOSING"]
  /\ UNCHANGED <<lifecycle, navOnline, isOnline, isConnected, pendingQueue, effectDue,
                 wsRef, isConnectingRef, reconnectTimeoutRef, pingIntervalRef,
                 reconnectTimers, pingIntervals, pingsSent, outbuf, nextEvent,
                 enqLog, flushLog, relayReceived>>

\* The connection is gone (the handshake ended, or the transport dropped):
\* what was still on the wire is lost, and the close event is delivered.
SocketClose(s) ==
  /\ readyState[s] \in {"OPEN", "CLOSING"}
  /\ readyState' = [readyState EXCEPT ![s] = "CLOSED"]
  /\ outbuf' = [outbuf EXCEPT ![s] = <<>>]
  /\ onclose(s)
  /\ UNCHANGED <<lifecycle, navOnline, isOnline, pendingQueue, wsRef, pingsSent,
                 nextEvent, enqLog, flushLog, relayReceived>>

(***************************************************************************)
(* Timers.                                                                 *)
(***************************************************************************)
\* The setTimeout callback of onclose, 5 s later. `named` tells whether the
\* timer that expires is the one reconnectTimeoutRef names.
ReconnectTimerFires(named) ==
  /\ reconnectTimers > 0
  /\ IF named
     THEN reconnectTimeoutRef = "pending"
     ELSE reconnectTimers > (IF reconnectTimeoutRef = "pending" THEN 1 ELSE 0)
  /\ reconnectTimers' = reconnectTimers - 1
  /\ reconnectTimeoutRef' = IF named THEN "done" ELSE reconnectTimeoutRef
  /\ IF navOnline
     THEN CanCallConnect /\ connect
     ELSE UNCHANGED <<isConnectingRef, wsRef, readyState>>
  /\ UNCHANGED <<lifecycle, navOnline, isOnline, isConnected, pendingQueue, effectDue,
                 pingIntervalRef, pingIntervals, pingsSent, outbuf, nextEvent,
                 enqLog, flushLog, relayReceived>>

\* The setInterval callback of onopen, every 25 s: it reads the socket of its
\* own closure, not wsRef and not isConnected.
PingTick(s) ==
  /\ s \in pingIntervals
  /\ pingsSent' = IF readyState[s] = "OPEN" THEN (pingsSent + 1) % PingWrap ELSE pingsSent
  /\ UNCHANGED <<lifecycle, navOnline, isOnline, isConnected, pendingQueue, effectDue,
                 wsRef, isConnectingRef, reconnectTimeoutRef, pingIntervalRef,
                 readyState, reconnectTimers, pingIntervals, outbuf, nextEvent,
                 enqLog, flushLog, relayReceived>>

(***************************************************************************)
(* sendMessage and the pending-queue effect.                               *)
(***************************************************************************)
sendMessage(m) ==
  IF IsOpen(wsRef)
  THEN /\ outbuf' = [outbuf EXCEPT ![wsRef] = Append(@, m)]
       /\ UNCHANGED <<pendingQueue, effectDue, enqLog>>
  ELSE /\ pendingQueue' = Append(pendingQueue, m)
       /\ effectDue' = TRUE
       /\ enqLog' = Append(enqLog, m)
       /\ UNCHANGED outbuf

\* The page calls sendMessage with a new SyncMessage.
Send ==
  /\ lifecycle = "mounted"
  /\ nextEvent <= MaxEvents
  /\ sendMessage(nextEvent)
  /\ nextEvent' = nextEvent + 1
  /\ UNCHANGED <<lifecycle, navOnline, isOnline, isConnected, wsRef, isConnectingRef,
                 reconnectTimeoutRef, pingIntervalRef, readyState, reconnectTimers,
                 pingIntervals, pingsSent, flushLog, relayReceived>>

\* The user saves an edit of an item: updateMutation.mutate. The PUT request
\* fails when the browser is offline, and can fail otherwise; sendMessage is
\* called in onSuccess only, onError shows a toast.
Edit(ok) ==
  /\ lifecycle = "mounted"
  /\ nextEvent <= MaxEvents
  /\ ok => navOnline
  /\ IF ok
     THEN sendMessage(nextEvent)
     ELSE UNCHANGED <<outbuf, pendingQueue, effectDue, enqLog>>
  /\ nextEvent' = nextEvent + 1
  /\ UNCHANGED <<lifecycle, navOnline, isOnline, isConnected, wsRef, isConnectingRef,
                 reconnectTimeoutRef, pingIntervalRef, readyState, reconnectTimers,
                 pingIntervals, pingsSent, flushLog, relayReceived>>

\* A flush that passes the queue to the socket last-in first-out.
FlushOrder_Reversed(q) == [i \in 1..Len(q) |-> q[Len(q) + 1 - i]]

\* pendingQueue.forEach(send): the order in which the queue is passed to the socket.
FlushOrder(q) == q

\* A flush that leaves the queue as it was.
AfterFlush_Keeps(q) == q

\* setPendingQueue([]) after the loop: what is left in the queue.
AfterFlush(q) == <<>>

\* useEffect(..., [isConnected, pendingQueue]). The effect reads the state of
\* the render it belongs to; the model runs it on the state current when it runs.
FlushEffect ==
  /\ lifecycle = "mounted"
  /\ effectDue
  /\ IF isConnected /\ Len(pendingQueue) > 0 /\ IsOpen(wsRef)
     THEN /\ outbuf' = [outbuf EXCEPT ![wsRef] = @ \o FlushOrder(pendingQueue)]
          /\ flushLog' = flushLog \o FlushOrder(pendingQueue)
          /\ pendingQueue' = AfterFlush(pendingQueue)
          /\ effectDue' = TRUE
     ELSE /\ effectDue' = FALSE
          /\ UNCHANGED <<outbuf, flushLog, pendingQueue>>
  /\ UNCHANGED <<lifecycle, navOnline, isOnline, isConnected, wsRef, isConnectingRef,
                 reconnectTimeoutRef, pingIntervalRef, readyState, reconnectTimers,
                 pingIntervals, pingsSent, nextEvent, enqLog, relayReceived>>

(***************************************************************************)
(* The cleanup of the mount effect.                                        *)
(***************************************************************************)
Teardown ==
  /\ lifecycle = "mounted"
  /\ lifecycle' = "unmounted"
  /\ reconnectTimers' = ClearReconnectTimeout
  /\ reconnectTimeoutRef' = IF reconnectTimeoutRef = "null" THEN "null" ELSE "done"
  /\ pingIntervals' = ClearPingInterval
  /\ readyState' = IF wsRef # NoSocket /\ readyState[wsRef] \in {"CONNECTING", "OPEN"}
                   THEN [readyState EXCEPT ![wsRef] = "CLOSING"]
                   ELSE readyState
  /\ UNCHANGED <<navOnline, isOnline, isConnected, pendingQueue, effectDue, wsRef,
                 isConnectingRef, pingIntervalRef, pingsSent, outbuf, nextEvent,
                 enqLog, flushLog, relayReceived>>

(***************************************************************************)
(* Incoming frames. A frame is the text of a message: a pong, the ping of  *)
(* a client's keep-alive interval, a SyncMessage (named by its type), text *)
(* that is no JSON ("garbled"), or the JSON text null, which parses and    *)
(* has no property to read.                                                *)
(***************************************************************************)
Frames == {"pong", "ping", "garbled", "json_null", "stock_update", "arrival"}

\* syncMessageSchema: type is one of these.
SyncKinds == {"stock_update", "stock_create", "stock_delete", "full_sync", "arrival", "import"}

\* The frames on the way to the relay.
RECURSIVE FramesOn(_)
FramesOn(S) ==
  IF S = {} THEN 0
  ELSE LET c == CHOOSE x \in S : TRUE
       IN Len(wire[c]) + FramesOn(S \ {c})

InFlight == FramesOn(Channels)

\* A parser that accepts every text.
Parses_Always(frame) == TRUE

\* JSON.parse(...) returns; it throws a SyntaxError otherwise.
Parses(frame) == frame # "garbled"

\* message.type can be read; on null it throws a TypeError.
HasType(frame) == frame # "json_null"

\* A handler that surfaces the acknowledgment as well.
onmessage_KeepsPong(slot, frame) ==
  IF ~Parses(frame) \/ ~HasType(frame) THEN slot ELSE frame

\* ws.onmessage: the value of lastMessage after the handler ran on the frame;
\* a throw inside the try is caught and logged.
onmessage(slot, frame) ==
  IF ~Parses(frame) \/ ~HasType(frame) THEN slot
  ELSE IF frame = "pong" THEN slot
  ELSE frame

\* A message event of an open socket (the browser fires none otherwise). A
\* ping is what the relay has broadcast of another client's keep-alive.
Incoming(s, frame) ==
  /\ readyState[s] = "OPEN"
  /\ frame = "ping" => \E d \in delivered : d[2] = "ping"
  /\ Len(received) + InFlight < MaxFrames
  /\ lastMessage' = onmessage(lastMessage, frame)
  /\ received' = Append(received, [by |-> "client", frame |-> frame])
  /\ UNCHANGED <<lifecycle, navOnline, isOnline, isConnected, pendingQueue, effectDue,
                 wsRef, isConnectingRef, reconnectTimeoutRef, pingIntervalRef,
                 readyState, reconnectTimers, pingIntervals, pingsSent, outbuf,
                 nextEvent, enqLog, flushLog, relayReceived>>

(***************************************************************************)
(* The wire: the relay's ws.on("message") receives what a socket sent, in  *)
(* the order sent.                                                         *)
(***************************************************************************)
RelayReceive(s) ==
  /\ readyState[s] \in {"OPEN", "CLOSING"}
  /\ outbuf[s] # <<>>
  /\ outbuf' = [outbuf EXCEPT ![s] = Tail(@)]
  /\ relayReceived' = Append(relayReceived, Head(outbuf[s]))
  /\ UNCHANGED <<lifecycle, navOnline, isOnline, isConnected, pendingQueue, effectDue,
                 wsRef, isConnectingRef, reconnectTimeoutRef, pingIntervalRef,
                 readyState, reconnectTimers, pingIntervals, pingsSent, nextEvent,
                 enqLog, flushLog>>

(***************************************************************************)
(* Observers: history variables the claims read. They follow the steps of  *)
(* the client and decide none of them.                                     *)
(***************************************************************************)
OnlineHandled == lifecycle = "mounted" /\ ~navOnline /\ navOnline'

OfflineHandled == lifecycle = "mounted" /\ navOnline /\ ~navOnline'

SomeSocketOpens == \E s \in Sockets : readyState[s] # "OPEN" /\ readyState'[s] = "OPEN"

\* A close event in the wide sense: a socket starts closing or is closed.
SomeSocketCloses ==
  \E s \in Sockets : readyState[s] # readyState'[s] /\ readyState'[s] \in {"CLOSING", "CLOSED"}

ObserveOffline ==
  offlineSinceOpen' = IF OfflineHandled THEN TRUE
                      ELSE IF SomeSocketOpens THEN FALSE
                      ELSE offlineSinceOpen

ObserveOnline ==
  sinceOnline' = IF OnlineHandled THEN "clean"
                 ELSE IF (OfflineHandled \/ SomeSocketCloses) /\ sinceOnline # "none" THEN "void"
                 ELSE sinceOnline

ObserveEdits ==
  offlineEdits' = IF nextEvent' # nextEvent /\ ~navOnline
                  THEN offlineEdits \cup {nextEvent}
                  ELSE offlineEdits

\* What a step of the connection manager, and of the offline queue, adds to
\* the client action it takes.
ConnFrame == ObserveOnline /\ UNCHANGED <<offlineSinceOpen, offlineEdits, relayVars, storeVars, handlerVars, callVars, inboxVars, pageVars>>

QueueFrame == ObserveOffline /\ UNCHANGED <<sinceOnline, offlineEdits, relayVars, storeVars, handlerVars, callVars, inboxVars, pageVars>>

(***************************************************************************)
(* The relay: routes.ts. clients is a Set, which forEach visits in         *)
(* insertion order.                                                        *)
(***************************************************************************)
Registered == Range(clients)

\* A close or error handler that deletes nothing.
RemoveClient_Keeps(c) == clients

\* clients.delete(ws)
RemoveClient(c) == SelectSeq(clients, LAMBDA x : x # c)

\* A loop body that does not compare the client with excludeClient.
Eligible_IgnoringExclude(client, excludeClient) ==
  chanState[client] = "OPEN"

\* The test of broadcast's loop body.
Eligible(client, excludeClient) ==
  client # excludeClient /\ chanState[client] = "OPEN"

\* The places of clients where client.send throws. broadcast catches nothing:
\* the first throw ends the forEach.
ThrowingAt(excludeClient) ==
  {i \in DOMAIN clients :
     Eligible(clients[i], excludeClient) /\ clients[i] \in sendThrows}

broadcastThrows(excludeClient) == ThrowingAt(excludeClient) # {}

\* broadcast(message, excludeClient): the deliveries it makes.
broadcast(message, excludeClient) ==
  {<<clients[i], message, excludeClient>> :
     i \in {k \in DOMAIN clients :
              /\ Eligible(clients[k], excludeClient)
              /\ \A j \in ThrowingAt(excludeClient) : k < j}}

\* wss.on("connection"): the connections are numbered in the order accepted.
Connection(c) ==
  /\ chanState[c] = "NONE"
  /\ \A d \in Channels : d < c => chanState[d] # "NONE"
  /\ chanState' = [chanState EXCEPT ![c] = "OPEN"]
  /\ clients' = Append(clients, c)
  /\ UNCHANGED <<sendThrows, wire, delivered, mutation>>

\* ws.on("message"): parse, then broadcast to the others; what broadcast
\* throws is caught and logged.
OnMessage(c) ==
  /\ chanState[c] \in {"OPEN", "CLOSING"}
  /\ wire[c] # <<>>
  /\ wire' = [wire EXCEPT ![c] = Tail(@)]
  /\ delivered' = IF Parses(Head(wire[c]))
                  THEN delivered \cup broadcast(Head(wire[c]), c)
                  ELSE delivered
  /\ UNCHANGED <<clients, chanState, sendThrows, mutation>>

\* The client of a connection sends a frame of its own making.
ClientSends(c, frame) ==
  /\ chanState[c] = "OPEN"
  /\ Len(received) + InFlight < MaxFrames
  /\ wire' = [wire EXCEPT ![c] = Append(@, frame)]
  /\ UNCHANGED <<clients, chanState, sendThrows, delivered, mutation>>

\* The message handler of the relay runs on the frame at the head of the wire.
Hears(c) ==
  /\ received' = Append(received, [by |-> "relay", frame |-> Head(wire[c])])
  /\ UNCHANGED lastMessage

\* The closing handshake starts: the connection is no longer OPEN and stays
\* registered until its close event.
ChannelClosing(c) ==
  /\ chanState[c] = "OPEN"
  /\ chanState' = [chanState EXCEPT ![c] = "CLOSING"]
  /\ UNCHANGED <<clients, sendThrows, wire, delivered, mutation>>

\* ws.on("error"): the library has moved the connection to CLOSING.
OnError(c) ==
  /\ chanState[c] = "OPEN"
  /\ chanState' = [chanState EXCEPT ![c] = "CLOSING"]
  /\ clients' = RemoveClient(c)
  /\ UNCHANGED <<sendThrows, wire, delivered, mutation>>

\* ws.on("close"): what the client had sent and the relay had not read is lost.
OnClose(c) ==
  /\ chanState[c] \in {"OPEN", "CLOSING"}
  /\ chanState' = [chanState EXCEPT ![c] = "CLOSED"]
  /\ clients' = RemoveClient(c)
  /\ wire' = [wire EXCEPT ![c] = <<>>]
  /\ sendThrows' = sendThrows \ {c}
  /\ UNCHANGED <<delivered, mutation>>

\* The fault of the failure-isolation clause: from now on client.send throws
\* on this connection. One connection is faulty at a time.
SendBreaks(c) ==
  /\ chanState[c] = "OPEN"
  /\ sendThrows = {}
  /\ sendThrows' = sendThrows \cup {c}
  /\ UNCHANGED <<clients, chanState, wire, delivered, mutation>>

(***************************************************************************)
(* The mutation round trip: the endpoint writes the store and broadcasts   *)
(* to every client; the page, on success, calls sendMessage for the kinds  *)
(* it has a mutation for.                                                   *)
(***************************************************************************)
Kinds == {"stock_create", "stock_update", "stock_delete", "arrival", "import"}

\* The kinds whose useMutation has an onSuccess that calls sendMessage.
PageSends(kind) == kind \in {"stock_update", "arrival", "import"}

NoMutation == [by |-> NoChannel, pageSends |-> FALSE, stage |-> "none", peers |-> {}]

\* The round trip of the latest mutation is over: nothing of it is left to
\* happen. The model follows one mutation at a time.
Settled ==
  \/ mutation.stage \in {"none", "failed", "queued", "done"}
  \/ mutation.stage = "sent" /\ wire[mutation.by] = <<>>

\* The endpoints: the write of the store, then broadcast(event) with no
\* excludeClient, then the 200 reply; a throw of broadcast is answered by 500.
HttpMutation(c, kind) ==
  /\ Settled
  /\ delivered' = broadcast("event", NoChannel)
  /\ mutation' = [by |-> c, pageSends |-> PageSends(kind),
                  stage |-> IF broadcastThrows(NoChannel) THEN "failed" ELSE "responded",
                  peers |-> {p \in Registered : Eligible(p, c)}]
  /\ UNCHANGED <<clients, chanState, sendThrows, wire>>

\* onSuccess of the page's mutation: sendMessage transmits on an open
\* connection and queues otherwise.
OnSuccess ==
  /\ mutation.stage = "responded"
  /\ IF ~mutation.pageSends
     THEN /\ mutation' = [mutation EXCEPT !.stage = "done"]
          /\ UNCHANGED wire
     ELSE IF chanState[mutation.by] = "OPEN"
     THEN /\ mutation' = [mutation EXCEPT !.stage = "sent"]
          /\ wire' = [wire EXCEPT ![mutation.by] = Append(@, "event")]
     ELSE /\ mutation' = [mutation EXCEPT !.stage = "queued"]
          /\ UNCHANGED wire
  /\ UNCHANGED <<clients, chanState, sendThrows, delivered>>

RelayInit ==
  /\ clients = <<>>
  /\ chanState = [c \in Channels |-> "NONE"]
  /\ sendThrows = {}
  /\ wire = [c \in Channels |-> <<>>]
  /\ delivered = {}
  /\ mutation = NoMutation

(***************************************************************************)
(* The record store: MemStorage of storage.ts. A record is                 *)
(* [id, reference, name, currentStock, pendingArrival, threshold]: name    *)
(* stands for the texts name, unit and location, which the store treats    *)
(* alike; lastUpdated is a timestamp the model leaves out. The Map         *)
(* keeps the insertion order, and a set() of an existing key keeps its     *)
(* place. The identifiers are abstract: the model does not tell the        *)
(* string ids of the schema from the numbers the endpoints parse.          *)
(***************************************************************************)
\* An optional field of a request body: <<>> when the body does not have it,
\* <<v>> when it has the value v.
Absent == <<>>

Optional(S) == {Absent} \cup {<<v>> : v \in S}

\* String.prototype.toLowerCase on the references of the model.
toLowerCase(r) == IF r = "A" THEN "a" ELSE r

InRange(n) == -MaxStock <= n /\ n <= MaxStock

Max(a, b) == IF a >= b THEN a ELSE b

\* this.stock.get(id): the place of the record in the Map, 0 when it has none.
IndexOf(store, id) ==
  IF \E i \in DOMAIN store : store[i].id = id
  THEN CHOOSE i \in DOMAIN store : store[i].id = id
  ELSE 0

\* A search that compares the references letter case included.
FindByReference_CaseSensitive(store, reference) ==
  IF \E i \in DOMAIN store : store[i].reference = reference
  THEN CHOOSE i \in DOMAIN store :
         /\ store[i].reference = reference
         /\ \A j \in DOMAIN store : store[j].reference = reference => i <= j
  ELSE 0

\* Array.from(values()).find(...): the first record whose reference matches
\* case-insensitively, 0 when none does.
FindByReference(store, reference) ==
  IF \E i \in DOMAIN store : toLowerCase(store[i].reference) = toLowerCase(reference)
  THEN CHOOSE i \in DOMAIN store :
         /\ toLowerCase(store[i].reference) = toLowerCase(reference)
         /\ \A j \in DOMAIN store :
              toLowerCase(store[j].reference) = toLowerCase(reference) => i <= j
  ELSE 0

\* The numeric rules of stockItemSchema: a present number is >= 0.
NonNegative(n) == n = Absent \/ n[1] >= 0

\* insertStockItemSchema.parse: currentStock is required.
ValidInsert(item) ==
  /\ item.currentStock # Absent
  /\ NonNegative(item.currentStock)
  /\ NonNegative(item.pendingArrival)

\* updateStockItemSchema.parse: every field but the id is optional.
ValidUpdate(item) ==
  /\ NonNegative(item.currentStock)
  /\ NonNegative(item.pendingArrival)

\* stockArrivalSchema: quantity is at least 1; the itemId names a record
\* (parseInt of the route does not yield NaN).
ValidArrival(arrival) ==
  /\ arrival.itemId # BadId
  /\ arrival.quantity >= 1

\* batchArrivalSchema: at least one pair, every pair valid.
ValidArrivals(arrivals) ==
  /\ arrivals # <<>>
  /\ \A i \in DOMAIN arrivals : ValidArrival(arrivals[i])

\* The rows of an import are InsertStockItems: at least one, every row valid.
ValidImport(items) ==
  /\ items # <<>>
  /\ \A i \in DOMAIN items : ValidInsert(items[i])

\* value || 0.
OrZero(n) == IF n = Absent THEN 0 ELSE n[1]

createStock(store, id, item) ==
  Append(store, [id |-> id,
                 reference |-> item.reference,
                 name |-> item.name,
                 currentStock |-> item.currentStock[1],
                 pendingArrival |-> OrZero(item.pendingArrival),
                 threshold |-> OrZero(item.threshold)])

\* { ...existing, ...item }: the fields the body has replace the stored ones.
Merge(existing, item) ==
  [id |-> existing.id,
   reference |-> IF item.reference = Absent THEN existing.reference ELSE item.reference[1],
   name |-> IF item.name = Absent THEN existing.name ELSE item.name[1],
   currentStock |-> IF item.currentStock = Absent THEN existing.currentStock
                    ELSE item.currentStock[1],
   pendingArrival |-> IF item.pendingArrival = Absent THEN existing.pendingArrival
                      ELSE item.pendingArrival[1],
   threshold |-> IF item.threshold = Absent THEN existing.threshold
                 ELSE item.threshold[1]]

updateStock(store, id, item) ==
  [store EXCEPT ![IndexOf(store, id)] = Merge(@, item)]

deleteStock(store, id) == SelectSeq(store, LAMBDA r : r.id # id)

\* A pair of applyArrivals that moves nothing into currentStock.
ApplyArrival_PendingOnly(store, arrival) ==
  IF IndexOf(store, arrival.itemId) = 0
  THEN store
  ELSE [store EXCEPT ![IndexOf(store, arrival.itemId)] =
          [@ EXCEPT !.pendingArrival = Max(0, @ - arrival.quantity)]]

\* A pair of applyArrivals that writes a whole new record.
ApplyArrival_ResetsThreshold(store, arrival) ==
  IF IndexOf(store, arrival.itemId) = 0
  THEN store
  ELSE [store EXCEPT ![IndexOf(store, arrival.itemId)] =
          [@ EXCEPT !.currentStock = @ + arrival.quantity,
                    !.pendingArrival = Max(0, @ - arrival.quantity),
                    !.threshold = 0]]

\* A pair of applyArrivals computed from the record as it was before the batch.
ApplyArrival_FromSnapshot(store, arrival) ==
  IF IndexOf(store, arrival.itemId) = 0
  THEN store
  ELSE [store EXCEPT ![IndexOf(store, arrival.itemId)] =
          [@ EXCEPT !.currentStock =
                       before[IndexOf(store, arrival.itemId)].currentStock
                          + arrival.quantity,
                    !.pendingArrival =
                       Max(0, before[IndexOf(store, arrival.itemId)].pendingArrival
                                 - arrival.quantity)]]

\* A pair of applyArrivals that leaves pendingArrival unclamped.
ApplyArrival_NoClamp(store, arrival) ==
  IF IndexOf(store, arrival.itemId) = 0
  THEN store
  ELSE [store EXCEPT ![IndexOf(store, arrival.itemId)] =
          [@ EXCEPT !.currentStock = @ + arrival.quantity,
                    !.pendingArrival = @ - arrival.quantity]]

\* One pair of applyArrivals' loop.
ApplyArrival(store, arrival) ==
  IF IndexOf(store, arrival.itemId) = 0
  THEN store
  ELSE [store EXCEPT ![IndexOf(store, arrival.itemId)] =
          [@ EXCEPT !.currentStock = @ + arrival.quantity,
                    !.pendingArrival = Max(0, @ - arrival.quantity)]]

RECURSIVE applyArrivals(_, _)
applyArrivals(store, arrivals) ==
  IF arrivals = <<>>
  THEN store
  ELSE applyArrivals(ApplyArrival(store, Head(arrivals)), Tail(arrivals))

\* A loop that creates a record for every row.
ImportRow_AlwaysCreates(acc, item) ==
  [stock |-> createStock(acc.stock, acc.nextId, item),
   nextId |-> acc.nextId + 1,
   imported |-> acc.imported + 1]

\* A loop that counts the rows it creates only.
ImportRow_CountsCreated(acc, item) ==
  IF FindByReference(acc.stock, item.reference) # 0
  THEN [acc EXCEPT !.stock[FindByReference(acc.stock, item.reference)] =
                      [@ EXCEPT !.name = item.name,
                                !.currentStock = item.currentStock[1],
                                !.pendingArrival = OrZero(item.pendingArrival),
                                !.threshold = OrZero(item.threshold)]]
  ELSE [stock |-> createStock(acc.stock, acc.nextId, item),
        nextId |-> acc.nextId + 1,
        imported |-> acc.imported + 1]

\* One row of importStock's loop on [stock, nextId, imported].
ImportRow(acc, item) ==
  IF FindByReference(acc.stock, item.reference) # 0
  THEN [acc EXCEPT !.stock[FindByReference(acc.stock, item.reference)] =
                      [@ EXCEPT !.name = item.name,
                                !.currentStock = item.currentStock[1],
                                !.pendingArrival = OrZero(item.pendingArrival),
                                !.threshold = OrZero(item.threshold)],
                   !.imported = @ + 1]
  ELSE [stock |-> createStock(acc.stock, acc.nextId, item),
        nextId |-> acc.nextId + 1,
        imported |-> acc.imported + 1]

RECURSIVE importFrom(_, _)
importFrom(acc, items) ==
  IF items = <<>>
  THEN acc
  ELSE importFrom(ImportRow(acc, Head(items)), Tail(items))

importStock(store, id, items) ==
  importFrom([stock |-> store, nextId |-> id, imported |-> 0], items)

\* The model keeps the store within its bounds.
WithinBounds(store, id) ==
  /\ id <= MaxIds + 1
  /\ \A i \in DOMAIN store :
       InRange(store[i].currentStock) /\ InRange(store[i].pendingArrival)

(***************************************************************************)
(* The mutation endpoints of routes.ts: validation, the call of the store, *)
(* the broadcast of the event, the reply.                                  *)
(***************************************************************************)
\* The bodies of the endpoints carry one name and no threshold: the
\* endpoints pass both on to the store unread.
InsertBodies ==
  [reference : References,
   name : {"n"},
   currentStock : Optional(Quantities),
   pendingArrival : Optional(Quantities),
   threshold : {Absent}]

UpdateBodies ==
  [reference : Optional(References),
   name : {Absent},
   currentStock : Optional(Quantities),
   pendingArrival : Optional(Quantities),
   threshold : {Absent}]

ArrivalPairs == [itemId : Ids \cup {BadId}, quantity : Quantities]

\* The rows of an import body: the modal sends every field of a row.
ImportRows ==
  [reference : References,
   name : {"n"},
   currentStock : {<<v>> : v \in Quantities},
   pendingArrival : {<<v>> : v \in Quantities},
   threshold : {Absent}]

Batches(S, max) == UNION {[1..n -> S] : n \in 0..max}

Reply(status, event) == [status |-> status, event |-> event]

\* POST /api/stock
PostStock(item) ==
  IF ~ValidInsert(item)
  THEN /\ reply' = Reply(400, "none")
       /\ UNCHANGED <<stock, nextId>>
  ELSE /\ nextId <= MaxIds
       /\ stock' = createStock(stock, nextId, item)
       /\ nextId' = nextId + 1
       /\ reply' = Reply(201, "stock_create")

\* PUT /api/stock/:id
PutStock(id, item) ==
  IF id = BadId \/ ~ValidUpdate(item)
  THEN /\ reply' = Reply(400, "none")
       /\ UNCHANGED <<stock, nextId>>
  ELSE IF IndexOf(stock, id) = 0
  THEN /\ reply' = Reply(404, "none")
       /\ UNCHANGED <<stock, nextId>>
  ELSE /\ stock' = updateStock(stock, id, item)
       /\ reply' = Reply(200, "stock_update")
       /\ UNCHANGED nextId

\* DELETE /api/stock/:id
DeleteStock(id) ==
  IF id = BadId
  THEN /\ reply' = Reply(400, "none")
       /\ UNCHANGED <<stock, nextId>>
  ELSE IF IndexOf(stock, id) = 0
  THEN /\ reply' = Reply(404, "none")
       /\ UNCHANGED <<stock, nextId>>
  ELSE /\ stock' = deleteStock(stock, id)
       /\ reply' = Reply(200, "stock_delete")
       /\ UNCHANGED nextId

\* POST /api/stock/arrivals: the body is checked for a non-empty array only.
PostArrivals(arrivals) ==
  IF arrivals = <<>>
  THEN /\ reply' = Reply(400, "none")
       /\ UNCHANGED <<stock, nextId>>
  ELSE /\ WithinBounds(applyArrivals(stock, arrivals), nextId)
       /\ stock' = applyArrivals(stock, arrivals)
       /\ reply' = Reply(200, "arrival")
       /\ UNCHANGED nextId

\* POST /api/stock/import: the body is checked for a non-empty array only.
PostImport(items) ==
  IF items = <<>>
  THEN /\ reply' = Reply(400, "none")
       /\ UNCHANGED <<stock, nextId>>
  ELSE /\ WithinBounds(importStock(stock, nextId, items).stock,
                       importStock(stock, nextId, items).nextId)
       /\ stock' = importStock(stock, nextId, items).stock
       /\ nextId' = importStock(stock, nextId, items).nextId
       /\ reply' = Reply(200, "import")

(***************************************************************************)
(* A peer: a second client whose page shows the records. The event an      *)
(* endpoint broadcasts reaches the peer's lastMessage, and the page's      *)
(* effect on [lastMessage] runs on it before the next request is made.     *)
(***************************************************************************)
Handled == IF notice = Absent THEN TRUE ELSE notice[1].handled

\* broadcast({type, payload, timestamp}) of the endpoint, as the peer gets it.
Notified(payload) ==
  /\ notice' = IF reply'.event = "none" THEN notice
               ELSE <<[type |-> reply'.event, payload |-> payload, handled |-> FALSE]>>
  /\ UNCHANGED cache

\* The body of the page's effect: the query data after it ran on the message;
\* refetch() loads the records of the store.
OnSyncMessage(data, message) ==
  IF message.type = "stock_update"
  THEN [i \in DOMAIN data |->
          IF data[i].id = message.payload.id THEN message.payload ELSE data[i]]
  ELSE IF message.type \in {"full_sync", "arrival", "import"}
  THEN stock
  ELSE data

\* useEffect(..., [lastMessage, refetch]) of the page.
PageEffect ==
  /\ ~Handled
  /\ cache' = OnSyncMessage(cache, notice[1])
  /\ notice' = <<[notice[1] EXCEPT !.handled = TRUE]>>
  /\ UNCHANGED storeVars

StoreInit ==
  /\ stock = <<>>
  /\ nextId = 1
  /\ reply = Reply(0, "none")

(***************************************************************************)
(* One call of a storage method on a store the endpoints can have built:   *)
(* the records before the call, the argument and what the call returned    *)
(* are kept for the claims about applyArrivals and importStock.            *)
(***************************************************************************)
\* A loop body that pushes an entry for every pair.
UpdatedBy_EveryPair(store, arrival) ==
  <<[id |-> arrival.itemId]>>

\* updatedItems.push(updatedItem), inside if (existing): what one pair adds
\* to the list applyArrivals returns.
UpdatedBy(store, arrival) ==
  IF IndexOf(store, arrival.itemId) = 0
  THEN <<>>
  ELSE <<ApplyArrival(store, arrival)[IndexOf(store, arrival.itemId)]>>

\* The list applyArrivals returns.
RECURSIVE UpdatedItems(_, _)
UpdatedItems(store, arrivals) ==
  IF arrivals = <<>>
  THEN <<>>
  ELSE UpdatedBy(store, Head(arrivals))
         \o UpdatedItems(ApplyArrival(store, Head(arrivals)), Tail(arrivals))

\* The stores a call starts from: up to MaxShelf records with the ids 1, 2, ...
Shelves(refs, stocks, pendings) ==
  UNION {{[i \in 1..n |-> [id |-> i,
                           reference |-> f[i].reference,
                           name |-> "n",
                           currentStock |-> f[i].currentStock,
                           pendingArrival |-> f[i].pendingArrival,
                           threshold |-> 3]] :
            f \in [1..n -> [reference : refs, currentStock : stocks,
                            pendingArrival : pendings]]} :
         n \in 0..MaxShelf}

\* The batches of POST /api/stock/arrivals; the id 0 and the ids beyond the
\* store name no record.
ArrivalLots ==
  Batches([itemId : 0..MaxShelf, quantity : {0, 1, 3}], MaxLot)

\* The batches of POST /api/stock/import: a row has all its fields, or leaves
\* pendingArrival and threshold out.
ImportLots ==
  Batches([reference : References, name : {"m"}, currentStock : {<<0>>, <<3>>},
           pendingArrival : {<<1>>}, threshold : {<<2>>}]
            \cup [reference : References, name : {"m"}, currentStock : {<<0>>, <<3>>},
                  pendingArrival : {Absent}, threshold : {Absent}],
          MaxLot)

CallApplyArrivals ==
  /\ op = "applyArrivals"
  /\ returned = Absent
  /\ stock' = applyArrivals(stock, args)
  /\ returned' = <<UpdatedItems(stock, args)>>
  /\ UNCHANGED <<nextId, reply, op, args, before>>

CallImportStock ==
  /\ op = "importStock"
  /\ returned = Absent
  /\ stock' = importStock(stock, nextId, args).stock
  /\ nextId' = importStock(stock, nextId, args).nextId
  /\ returned' = <<[imported |-> importStock(stock, nextId, args).imported]>>
  /\ UNCHANGED <<reply, op, args, before>>

NoCall ==
  /\ op = "none"
  /\ args = <<>>
  /\ before = <<>>
  /\ returned = Absent

CallInit ==
  /\ \/ /\ op = "applyArrivals"
        /\ stock \in Shelves({"a"}, {0, 1}, {0, 2})
        /\ args \in ArrivalLots
     \/ /\ op = "importStock"
        /\ stock \in Shelves(References, {1}, {2})
        /\ args \in ImportLots
  /\ nextId = Len(stock) + 1
  /\ reply = Reply(0, "none")
  /\ before = stock
  /\ returned = Absent

(***************************************************************************)
(* The derived values of shared/schema.ts, computed from one item.         *)
(* threshold * 1.5 is compared in integers: a <= 1.5 t iff 2 a <= 3 t.     *)
(***************************************************************************)
\* A status that is low up to the threshold included.
getStockStatus_LowAtThreshold(item) ==
  LET available == item.currentStock + OrZero(item.pendingArrival)
      threshold == OrZero(item.threshold)
  IN IF available <= 0 THEN "critical"
     ELSE IF available <= threshold THEN "low"
     ELSE IF 2 * available <= 3 * threshold THEN "adequate"
     ELSE "high"

\* A status whose adequate band ends below one and a half thresholds.
getStockStatus_Strict(item) ==
  LET available == item.currentStock + OrZero(item.pendingArrival)
      threshold == OrZero(item.threshold)
  IN IF available <= 0 THEN "critical"
     ELSE IF available < threshold THEN "low"
     ELSE IF 2 * available < 3 * threshold THEN "adequate"
     ELSE "high"

getStockStatus(item) ==
  LET available == item.currentStock + OrZero(item.pendingArrival)
      threshold == OrZero(item.threshold)
  IN IF available <= 0 THEN "critical"
     ELSE IF available < threshold THEN "low"
     ELSE IF 2 * available <= 3 * threshold THEN "adequate"
     ELSE "high"

\* A difference that is not cut at 0.
getMissingQuantity_Signed(item) ==
  OrZero(item.threshold) - (item.currentStock + OrZero(item.pendingArrival))

getMissingQuantity(item) ==
  LET available == item.currentStock + OrZero(item.pendingArrival)
      threshold == OrZero(item.threshold)
  IN Max(0, threshold - available)

\* The items the helpers are called with: pendingArrival and threshold may
\* be null.
Items ==
  [currentStock : 0..MaxLevel,
   pendingArrival : {Absent} \cup {<<n>> : n \in 0..MaxPending},
   threshold : {Absent} \cup {<<n>> : n \in 0..MaxThreshold}]

CallGetStockStatus ==
  /\ op = "getStockStatus"
  /\ returned = Absent
  /\ returned' = <<getStockStatus(args)>>
  /\ UNCHANGED <<stock, nextId, reply, op, args, before>>

CallGetMissingQuantity ==
  /\ op = "getMissingQuantity"
  /\ returned = Absent
  /\ returned' = <<getMissingQuantity(args)>>
  /\ UNCHANGED <<stock, nextId, reply, op, args, before>>

\* Both helpers on the same item, as a row of the page shows them.
CallBoth ==
  /\ op = "derived"
  /\ returned = Absent
  /\ returned' = <<[status |-> getStockStatus(args), missing |-> getMissingQuantity(args)]>>
  /\ UNCHANGED <<stock, nextId, reply, op, args, before>>

DerivedInit ==
  /\ op \in {"getStockStatus", "getMissingQuantity", "derived"}
  /\ args \in Items
  /\ before = <<>>
  /\ returned = Absent

(***************************************************************************)
(* Request handlers. A handler of routes.ts awaits the store; between the  *)
(* awaits of a DatabaseStorage method (one per database statement) other   *)
(* handlers run. A MemStorage method has no await inside: it is one step.  *)
(* What follows the resolved store call (broadcast, the reply) is one step.*)
(***************************************************************************)
HandlerKinds == {"arrival", "stock_update"}

\* The statements of a handler in program order, for the class behind storage.
Program_NotifyFirst(store, kind) ==
  IF kind = "arrival"
  THEN IF store = "DatabaseStorage"
       THEN <<"broadcast", "select", "update">>
       ELSE <<"broadcast", "apply">>
  ELSE <<"broadcast", "set">>

Program(store, kind) ==
  IF kind = "arrival"
  THEN IF store = "DatabaseStorage"
       THEN <<"select", "update", "broadcast">>
       ELSE <<"apply", "broadcast">>
  ELSE <<"set", "broadcast">>

NotReceived == 0

Received(r) == handler[r].at # NotReceived

Finished(r) == Received(r) /\ handler[r].at > Len(Program(backend, handler[r].kind))

AtStatement(r, statement) ==
  /\ Received(r)
  /\ ~Finished(r)
  /\ Program(backend, handler[r].kind)[handler[r].at] = statement

Advance(r) == [handler EXCEPT ![r].at = @ + 1]

\* currentStock: existing.currentStock + arrival.quantity,
\* pendingArrival: Math.max(0, (existing.pendingArrival || 0) - arrival.quantity)
Arrived(existing, quantity) ==
  [currentStock |-> existing.currentStock + quantity,
   pendingArrival |-> Max(0, existing.pendingArrival - quantity)]

\* The endpoint receives the request and calls the store; the requests are
\* numbered in the order received.
Receive(r, kind, quantity) ==
  /\ ~Received(r)
  /\ \A o \in Requests : o < r => Received(o)
  /\ handler' = [handler EXCEPT ![r] = [kind |-> kind, quantity |-> quantity,
                                        at |-> 1, existing |-> @.existing]]
  /\ UNCHANGED <<backend, row, rowAtStart, committed, notified, fetched>>

\* DatabaseStorage.applyArrivals: const existing = await this.getStockById(...)
Select(r) ==
  /\ AtStatement(r, "select")
  /\ handler' = [Advance(r) EXCEPT ![r].existing = row]
  /\ UNCHANGED <<backend, row, rowAtStart, committed, notified, fetched>>

\* DatabaseStorage.applyArrivals: await db.update(stockItems).set({...})
Update(r) ==
  /\ AtStatement(r, "update")
  /\ row' = Arrived(handler[r].existing, handler[r].quantity)
  /\ committed' = committed \cup {r}
  /\ handler' = Advance(r)
  /\ UNCHANGED <<backend, rowAtStart, notified, fetched>>

\* MemStorage.applyArrivals: this.stock.get and this.stock.set in one run.
Apply(r) ==
  /\ AtStatement(r, "apply")
  /\ row' = Arrived(row, handler[r].quantity)
  /\ committed' = committed \cup {r}
  /\ handler' = Advance(r)
  /\ UNCHANGED <<backend, rowAtStart, notified, fetched>>

\* updateStock of either class: the record takes the values of the body.
Set(r) ==
  /\ AtStatement(r, "set")
  /\ row' = [row EXCEPT !.currentStock = handler[r].quantity]
  /\ committed' = committed \cup {r}
  /\ handler' = Advance(r)
  /\ UNCHANGED <<backend, rowAtStart, notified, fetched>>

\* broadcast({type, payload, timestamp}) of the endpoint, then res.json.
Broadcast(r) ==
  /\ AtStatement(r, "broadcast")
  /\ notified' = notified \cup {r}
  /\ handler' = Advance(r)
  /\ UNCHANGED <<backend, row, rowAtStart, committed, fetched>>

\* A peer reacts to the notification of request r: refetch() reads the records.
Refetch(r) ==
  /\ r \in notified
  /\ fetched[r] = Absent
  /\ fetched' = [fetched EXCEPT ![r] = <<r \in committed>>]
  /\ UNCHANGED <<backend, row, rowAtStart, handler, committed, notified>>

RECURSIVE Total(_)
Total(S) ==
  IF S = {} THEN 0
  ELSE LET r == CHOOSE x \in S : TRUE
       IN handler[r].quantity + Total(S \ {r})

NoRequests ==
  /\ handler = [r \in Requests |->
                  [kind |-> "arrival", quantity |-> 1, at |-> NotReceived, existing |-> row]]
  /\ rowAtStart = row
  /\ committed = {}
  /\ notified = {}
  /\ fetched = [r \in Requests |-> Absent]

HandlerIdle ==
  /\ backend = "MemStorage"
  /\ row = [currentStock |-> 0, pendingArrival |-> 0]
  /\ NoRequests

HandlerInit ==
  /\ backend \in Backends
  /\ row \in [currentStock : 0..MaxOld, pendingArrival : 0..MaxArrival]
  /\ NoRequests

(***************************************************************************)
(* The client, before the mount effect has run.                            *)
(***************************************************************************)
ClientInit ==
  /\ lifecycle = "init"
  /\ navOnline \in BOOLEAN
  /\ isOnline = navOnline
  /\ isConnected = FALSE
  /\ pendingQueue = <<>>
  /\ effectDue = FALSE
  /\ wsRef = NoSocket
  /\ isConnectingRef = FALSE
  /\ reconnectTimeoutRef = "null"
  /\ pingIntervalRef = NoSocket
  /\ readyState = [s \in Sockets |-> "NONE"]
  /\ reconnectTimers = 0
  /\ pingIntervals = {}
  /\ pingsSent = 0
  /\ outbuf = [s \in Sockets |-> <<>>]
  /\ nextEvent = 1
  /\ enqLog = <<>>
  /\ flushLog = <<>>
  /\ relayReceived = <<>>
  /\ offlineSinceOpen = FALSE
  /\ sinceOnline = "none"
  /\ offlineEdits = {}
  /\ lastMessage = "null"
  /\ received = <<>>
  /\ cache = <<>>
  /\ notice = Absent

Init == ClientInit /\ RelayInit /\ StoreInit /\ HandlerIdle /\ NoCall

(***************************************************************************)
(* Spec: the connection manager. Network presence, the sockets with the    *)
(* relay's closing handshake, both timers and the teardown; the page sends *)
(* no SyncMessage.                                                         *)
(***************************************************************************)
Next ==
  \/ Mount /\ ConnFrame
  \/ OnlineEvent /\ ConnFrame
  \/ OfflineEvent /\ ConnFrame
  \/ \E s \in Sockets : SocketOpen(s) /\ ConnFrame
  \/ \E s \in Sockets : SocketFail(s) /\ ConnFrame
  \/ \E s \in Sockets : ClosingStart(s) /\ ConnFrame
  \/ \E s \in Sockets : SocketClose(s) /\ ConnFrame
  \/ \E named \in BOOLEAN : ReconnectTimerFires(named) /\ ConnFrame
  \/ \E s \in Sockets : PingTick(s) /\ ConnFrame
  \/ Teardown /\ ConnFrame

Spec == Init /\ [][Next]_vars

(***************************************************************************)
(* QueueSpec: the offline queue. The page calls sendMessage, the flush     *)
(* effect runs, the wire delivers or loses; the provider stays mounted and *)
(* a socket ends by failing or dropping, so one socket exists at a time.   *)
(***************************************************************************)
QueueNext ==
  \/ Mount /\ QueueFrame
  \/ OnlineEvent /\ QueueFrame
  \/ OfflineEvent /\ QueueFrame
  \/ \E s \in Sockets : SocketOpen(s) /\ QueueFrame
  \/ \E s \in Sockets : SocketFail(s) /\ QueueFrame
  \/ \E s \in Sockets : SocketClose(s) /\ QueueFrame
  \/ \E named \in BOOLEAN : ReconnectTimerFires(named) /\ QueueFrame
  \/ \E s \in Sockets : PingTick(s) /\ QueueFrame
  \/ Send /\ QueueFrame
  \/ FlushEffect /\ QueueFrame
  \/ \E s \in Sockets : RelayReceive(s) /\ QueueFrame

QueueSpec == Init /\ [][QueueNext]_vars

(***************************************************************************)
(* EditSpec: the offline queue fed by the page's edits, with the fairness  *)
(* of FairSpec and of what React and the network do on their own (the      *)
(* flush effect runs when it is due, what is on the wire of a live socket  *)
(* arrives).                                                               *)
(***************************************************************************)
EditFrame ==
  ObserveOffline /\ ObserveEdits
    /\ UNCHANGED <<sinceOnline, relayVars, storeVars, handlerVars, callVars, inboxVars, pageVars>>

EditNext ==
  \/ Mount /\ EditFrame
  \/ OnlineEvent /\ EditFrame
  \/ OfflineEvent /\ EditFrame
  \/ \E s \in Sockets : SocketOpen(s) /\ EditFrame
  \/ \E s \in Sockets : SocketFail(s) /\ EditFrame
  \/ \E s \in Sockets : SocketClose(s) /\ EditFrame
  \/ \E named \in BOOLEAN : ReconnectTimerFires(named) /\ EditFrame
  \/ \E ok \in BOOLEAN : Edit(ok) /\ EditFrame
  \/ FlushEffect /\ EditFrame
  \/ \E s \in Sockets : RelayReceive(s) /\ EditFrame

EditSpec ==
  /\ Init
  /\ [][EditNext]_vars
  /\ WF_vars(Mount /\ EditFrame)
  /\ \A s \in Sockets : WF_vars(SocketOpen(s) /\ EditFrame)
  /\ \A named \in BOOLEAN : WF_vars(ReconnectTimerFires(named) /\ EditFrame)
  /\ WF_vars(FlushEffect /\ EditFrame)
  /\ \A s \in Sockets : WF_vars(RelayReceive(s) /\ EditFrame)

(***************************************************************************)
(* RelaySpec: the relay and the mutation round trip.                       *)
(***************************************************************************)
RelayFrame == UNCHANGED <<clientVars, storeVars, handlerVars, callVars, inboxVars, pageVars>>

RelayNext ==
  \/ \E c \in Channels : Connection(c) /\ RelayFrame
  \/ \E c \in Channels : OnMessage(c) /\ RelayFrame
  \/ \E c \in Channels : ChannelClosing(c) /\ RelayFrame
  \/ \E c \in Channels : OnError(c) /\ RelayFrame
  \/ \E c \in Channels : OnClose(c) /\ RelayFrame
  \/ \E c \in Channels : SendBreaks(c) /\ RelayFrame
  \/ \E c \in Channels, kind \in Kinds : HttpMutation(c, kind) /\ RelayFrame
  \/ OnSuccess /\ RelayFrame

\* The client is not part of this specification: it stays as constructed.
Start == Init /\ navOnline = TRUE

RelaySpec == Start /\ [][RelayNext]_vars

(***************************************************************************)
(* StoreSpec: the record store behind the mutation endpoints.              *)
(***************************************************************************)
StoreFrame == UNCHANGED <<clientVars, relayVars, handlerVars, callVars, inboxVars, pageVars>>

StoreNext ==
  \/ \E item \in InsertBodies : PostStock(item) /\ StoreFrame
  \/ \E id \in Ids \cup {BadId}, item \in UpdateBodies : PutStock(id, item) /\ StoreFrame
  \/ \E id \in Ids \cup {BadId} : DeleteStock(id) /\ StoreFrame
  \/ \E arrivals \in Batches(ArrivalPairs, MaxBatch) : PostArrivals(arrivals) /\ StoreFrame
  \/ \E items \in Batches(ImportRows, MaxRows) : PostImport(items) /\ StoreFrame

StoreSpec == Start /\ [][StoreNext]_vars

(***************************************************************************)
(* HandlerSpec: concurrent requests on one record.                         *)
(***************************************************************************)
HandlerFrame == UNCHANGED <<clientVars, relayVars, storeVars, callVars, inboxVars, pageVars>>

HandlerNext ==
  \/ \E r \in Requests, kind \in HandlerKinds, quantity \in 1..MaxArrival :
        Receive(r, kind, quantity) /\ HandlerFrame
  \/ \E r \in Requests : Select(r) /\ HandlerFrame
  \/ \E r \in Requests : Update(r) /\ HandlerFrame
  \/ \E r \in Requests : Apply(r) /\ HandlerFrame
  \/ \E r \in Requests : Set(r) /\ HandlerFrame
  \/ \E r \in Requests : Broadcast(r) /\ HandlerFrame
  \/ \E r \in Requests : Refetch(r) /\ HandlerFrame

HandlerStart ==
  ClientInit /\ navOnline = TRUE /\ RelayInit /\ StoreInit /\ HandlerInit /\ NoCall

HandlerSpec == HandlerStart /\ [][HandlerNext]_vars

(***************************************************************************)
(* StorageSpec: one call of applyArrivals or importStock.                  *)
(***************************************************************************)
CallFrame == UNCHANGED <<clientVars, relayVars, handlerVars, inboxVars, pageVars>>

CallNext ==
  \/ CallApplyArrivals /\ CallFrame
  \/ CallImportStock /\ CallFrame

CallStart ==
  ClientInit /\ navOnline = TRUE /\ RelayInit /\ HandlerIdle /\ CallInit

StorageSpec == CallStart /\ [][CallNext]_vars

(***************************************************************************)
(* Fairness for the liveness claims: what the browser and the relay do on  *)
(* their own happens (a connection attempt is answered by the accepting    *)
(* relay, a timer expires, the mount effect runs); network-presence        *)
(* changes, closes and the teardown are not forced.                        *)
(***************************************************************************)
FairSpec ==
  /\ Init
  /\ [][Next]_vars
  /\ \A s \in Sockets : WF_vars(SocketOpen(s) /\ ConnFrame)
  /\ \A named \in BOOLEAN : WF_vars(ReconnectTimerFires(named) /\ ConnFrame)
  /\ WF_vars(Mount /\ ConnFrame)

(***************************************************************************)
(* Claims about the client.                                                *)
(***************************************************************************)

\* C2: the events queued by sendMessage are passed to the socket by the flush
\* effect in the order they were queued (what was flushed so far, followed by
\* what is still queued, is exactly what was queued), and a flush leaves the
\* pending queue empty.
C2_QueueOrdering ==
  /\ [](enqLog = flushLog \o pendingQueue)
  /\ [][flushLog' # flushLog => pendingQueue' = <<>>]_vars

C2_Witness ==
  /\ Len(flushLog) >= 2
  /\ flushLog = enqLog
  /\ pendingQueue = <<>>

\* C3: no queued event is lost when the channel closes during a flush: every
\* event that was queued is still queued, or on the wire, or has reached the
\* relay; and none reaches the relay twice.
C3_ResumableFlush ==
  /\ \A e \in Range(enqLog) :
        \/ e \in Range(pendingQueue)
        \/ \E s \in Sockets : e \in Range(outbuf[s])
        \/ e \in Range(relayReceived)
  /\ \A e \in Events : CountIn(relayReceived, e) <= 1

\* C4: a call of send while the client state is connected transmits the event
\* and leaves the queue alone; a call while it is not connected appends the
\* event to the queue and transmits nothing.
C4_SendTransmitsOrQueues ==
  [][nextEvent' # nextEvent =>
       IF isConnected
       THEN /\ pendingQueue' = pendingQueue
            /\ \E s \in Sockets :
                  outbuf' = [outbuf EXCEPT ![s] = Append(@, nextEvent)]
       ELSE /\ pendingQueue' = Append(pendingQueue, nextEvent)
            /\ outbuf' = outbuf]_vars

\* C5: at most one socket the client created is connecting or open.
C5_OneChannel ==
  Cardinality({s \in Sockets : readyState[s] \in {"CONNECTING", "OPEN"}}) <= 1

\* C9: after an offline event the client state is disconnected and, until a
\* socket opens again, nothing is passed to any socket (no SyncMessage, no ping).
C9_OfflineSilence ==
  [][(offlineSinceOpen /\ offlineSinceOpen') =>
       /\ ~isConnected'
       /\ pingsSent' = pingsSent
       /\ \A s \in Sockets : Len(outbuf'[s]) <= Len(outbuf[s])]_vars

\* C10: after an online event, unless an offline or close event follows, the
\* client eventually reports connected.
C10_OnlineLeadsToConnected ==
  (sinceOnline = "clean") ~> (isConnected \/ sinceOnline # "clean")

\* C11: after the teardown no reconnect timer and no keep-alive timer is
\* pending, and no socket is created any more (in particular not after the
\* close event of the socket the teardown closed).
C11_TeardownIsFinal ==
  /\ [](lifecycle = "unmounted" => reconnectTimers = 0 /\ pingIntervals = {})
  /\ [][lifecycle = "unmounted" =>
          \A s \in Sockets : readyState'[s] = "CONNECTING" => readyState[s] = "CONNECTING"]_vars

\* C16: no event that was placed in the offline queue is passed to a socket by
\* the flush more than once, and none reaches the relay more than once,
\* whatever disconnects, reconnects and flushes happen.
C16_ReplayOnce ==
  \A e \in Range(enqLog) :
     /\ CountIn(flushLog, e) <= 1
     /\ CountIn(relayReceived, e) <= 1

C16_Witness ==
  /\ Len(flushLog) >= 2
  /\ reconnectTimeoutRef = "done"
  /\ flushLog[1] \in Range(relayReceived)
  /\ \E s \in Sockets :
        /\ IsOpen(s)
        /\ flushLog[2] \in Range(outbuf[s])

\* C18: on every step in which a socket of the client becomes closed (after an
\* open connection or after a failed attempt), the client state is disconnected
\* afterwards, no keep-alive timer is active, and exactly one reconnect timer is
\* pending; and on every step in which a reconnect timer expires while the
\* network is online, connect() runs: it returns early, or a new socket is
\* connecting afterwards.
C18_CloseSchedulesReconnect ==
  [][/\ (\E s \in Sockets : readyState[s] # "CLOSED" /\ readyState'[s] = "CLOSED") =>
          /\ ~isConnected'
          /\ pingIntervals' = {}
          /\ pingIntervalRef' = NoSocket
          /\ reconnectTimers' = 1
          /\ reconnectTimeoutRef' = "pending"
     /\ (reconnectTimers' < reconnectTimers /\ lifecycle' = lifecycle /\ navOnline) =>
          IF ConnectReturnsEarly
          THEN UNCHANGED <<wsRef, readyState, isConnectingRef>>
          ELSE /\ isConnectingRef'
               /\ wsRef' \in Sockets
               /\ readyState[wsRef'] # "CONNECTING"
               /\ readyState'[wsRef'] = "CONNECTING"]_vars

C18_Witness ==
  /\ lifecycle = "mounted"
  /\ navOnline
  /\ reconnectTimeoutRef = "done"
  /\ reconnectTimers = 0
  /\ pingIntervals = {}
  /\ ~isConnected
  /\ isConnectingRef
  /\ wsRef \in Sockets
  /\ readyState[wsRef] = "CONNECTING"
  /\ \E s \in Sockets : readyState[s] = "CLOSED"

\* C19: in every reachable state at most one reconnect timer is pending and at
\* most one keep-alive timer is active; a step that establishes a new timer of
\* a kind leaves exactly that one timer of the kind.
C19_NoDuplicateTimers ==
  /\ [](reconnectTimers <= 1 /\ Cardinality(pingIntervals) <= 1)
  /\ [][/\ reconnectTimeoutRef' = "pending" => reconnectTimers' = 1
        /\ \A s \in Sockets :
             (s \in pingIntervals' /\ (s \notin pingIntervals \/ readyState'[s] # readyState[s]))
                => pingIntervals' = {s}]_vars

C19_Witness ==
  /\ reconnectTimers = 1
  /\ reconnectTimeoutRef = "pending"
  /\ Cardinality(pingIntervals) = 1
  /\ \E s \in Sockets : readyState[s] = "CLOSED"

C17_FlushOnOpen ==
  \A e \in Events :
     (e \in Range(pendingQueue) /\ navOnline /\ IsOpen(wsRef))
        ~> (e \in Range(flushLog) \/ ~navOnline \/ ~IsOpen(wsRef))

(***************************************************************************)
(* Claims about the relay.                                                 *)
(***************************************************************************)

\* C1: the relay never sends a message it relays back to the connection the
\* message came from.
C1_BroadcastExclusion ==
  \A d \in delivered : d[1] # d[3]

C1_Witness ==
  \E d \in delivered :
     /\ d[3] \in Channels
     /\ chanState[d[3]] = "OPEN"
     /\ d[3] \in Registered

\* C6: for a successful mutation, each other client connected when it was
\* handled has received exactly one event for it.
C6_ExactlyOneEvent ==
  mutation.stage \in {"responded", "queued", "sent", "done"} =>
     \A p \in mutation.peers :
        Cardinality({d \in delivered : d[1] = p}) = 1

\* C21: a connection is registered only between its connection event and its
\* first close or error event: every registered connection is connected and
\* has had no close event; a connection enters the set only when it connects;
\* a connection that is not registered receives nothing of a later broadcast;
\* and deleting a connection that is not registered leaves the set unchanged
\* (as the close after an error does).
C21_RegistryInvariant ==
  /\ [](\A c \in Registered : chanState[c] \in {"OPEN", "CLOSING"})
  /\ [](\A c \in Channels \ Registered : RemoveClient(c) = clients)
  /\ [][/\ clients' # clients =>
             \A c \in Range(clients') \ Registered : chanState[c] = "NONE"
        /\ chanState' # chanState =>
             \A c \in Registered :
                (chanState[c] # "CLOSED" /\ chanState'[c] = "CLOSED") => c \notin Range(clients')
        /\ delivered' # delivered =>
             \A d \in delivered' \ delivered : d[1] \in Registered
        /\ (mutation' # mutation /\ mutation'.stage \in {"responded", "failed"}) =>
             \A d \in delivered' : d[1] \in Registered]_vars

C21_Witness ==
  /\ \E c \in Channels : chanState[c] = "CLOSED" /\ c \notin Registered
  /\ \E c \in Channels : chanState[c] = "CLOSING" /\ c \notin Registered
  /\ \E d \in delivered : d[1] \in Registered

\* C22: a mutation endpoint reports success whether or not the send of its
\* broadcast throws on a connection: no mutation request is answered by a
\* failure because of the relay.
C22_FaultNotPropagated ==
  mutation.stage # "failed"

\* C20: a broadcast delivers the event to every registered connection that is
\* open and is not the excluded one (a connection whose own send throws aside),
\* and to no other connection: a connection that is connecting, closing or
\* closed receives nothing, and a broadcast fails only on a connection that is
\* open.
C20_BroadcastSemantics ==
  [][/\ (mutation' # mutation /\ mutation'.stage \in {"responded", "failed"}) =>
          /\ \A d \in Channels :
                /\ <<d, "event", NoChannel>> \in delivered'
                      => (d \in Registered /\ Eligible(d, NoChannel))
                /\ (d \in Registered /\ Eligible(d, NoChannel) /\ d \notin sendThrows)
                      => <<d, "event", NoChannel>> \in delivered'
          /\ mutation'.stage = "failed" =>
                \E d \in Registered : chanState[d] = "OPEN" /\ d \in sendThrows
     /\ \A c \in Channels :
          (Len(wire'[c]) < Len(wire[c]) /\ chanState'[c] = chanState[c]) =>
             \A d \in Channels :
                /\ <<d, Head(wire[c]), c>> \in delivered'
                      => (d \in Registered /\ Eligible(d, c))
                /\ (d \in Registered /\ Eligible(d, c) /\ d \notin sendThrows)
                      => <<d, Head(wire[c]), c>> \in delivered']_vars

\* C8: in a broadcast, every registered open connection other than the
\* excluded one, on which send does not throw, receives the event, whether
\* or not send throws on another connection.
C8_FailureIsolation ==
  [][/\ (mutation' # mutation /\ mutation'.stage \in {"responded", "failed"}) =>
          \A d \in Registered :
             (Eligible(d, NoChannel) /\ d \notin sendThrows) =>
                <<d, "event", NoChannel>> \in delivered'
     /\ \A c \in Channels :
          (Len(wire'[c]) < Len(wire[c]) /\ chanState'[c] = chanState[c]) =>
             \A d \in Registered :
                (Eligible(d, c) /\ d \notin sendThrows) =>
                   <<d, Head(wire[c]), c>> \in delivered']_vars

(***************************************************************************)
(* Claims about the request handlers.                                      *)
(***************************************************************************)

\* C12: the store is written before the broadcast of the mutation is emitted:
\* every request that was notified has its write executed, and a peer that
\* re-fetches after the notification of a request reads records that include
\* the write of that request.
C12_WriteThenNotify ==
  /\ notified \subseteq committed
  /\ \A r \in Requests : fetched[r] # Absent => fetched[r][1]

C12_Witness ==
  \E r \in Requests :
     /\ backend = "DatabaseStorage"
     /\ handler[r].kind = "arrival"
     /\ fetched[r] # Absent
     /\ \E o \in Requests \ {r} : handler[o].kind = "stock_update" /\ fetched[o] # Absent

\* C14: when all requests are arrivals for the record and all are finished,
\* currentStock is the old value plus every quantity: no update is lost.
C14_NoLostUpdate ==
  (\A r \in Requests : Finished(r) /\ handler[r].kind = "arrival") =>
     row.currentStock = rowAtStart.currentStock + Total(Requests)

(***************************************************************************)
(* Claims about the record store.                                          *)
(***************************************************************************)

\* C13: a request that is malformed (its body fails the schema of its endpoint,
\* or its id is not a number) or that names a missing record on the update and
\* delete endpoints leaves the store unchanged and broadcasts no event; on all
\* five mutation endpoints.
C13_RejectedBeforeStore ==
  [][LET Rejected == stock' = stock /\ nextId' = nextId /\ reply'.event = "none"
     IN /\ \A item \in InsertBodies :
             (~ValidInsert(item) /\ PostStock(item)) => Rejected
        /\ \A id \in Ids \cup {BadId}, item \in UpdateBodies :
             ((id = BadId \/ ~ValidUpdate(item) \/ IndexOf(stock, id) = 0)
                /\ PutStock(id, item)) => Rejected
        /\ \A id \in Ids \cup {BadId} :
             ((id = BadId \/ IndexOf(stock, id) = 0) /\ DeleteStock(id)) => Rejected
        /\ \A arrivals \in Batches(ArrivalPairs, MaxBatch) :
             (~ValidArrivals(arrivals) /\ PostArrivals(arrivals)) => Rejected
        /\ \A items \in Batches(ImportRows, MaxRows) :
             (~ValidImport(items) /\ PostImport(items)) => Rejected]_vars

\* C23: a pair of an arrival batch that names an existing record, with a
\* quantity >= 0 (the only pair of the batch for that record), leaves the
\* record with currentStock = old + quantity and pendingArrival =
\* max(0, old - quantity), which is not negative.
C23_ArrivalTransition ==
  (op = "applyArrivals" /\ returned # Absent) =>
     \A k \in DOMAIN args :
        LET i == IndexOf(before, args[k].itemId)
            q == args[k].quantity
        IN (/\ i # 0
            /\ q >= 0
            /\ \A j \in DOMAIN args \ {k} : args[j].itemId # args[k].itemId) =>
              /\ stock[i].currentStock = before[i].currentStock + q
              /\ stock[i].pendingArrival =
                    (IF before[i].pendingArrival - q > 0
                     THEN before[i].pendingArrival - q ELSE 0)
              /\ stock[i].pendingArrival >= 0

C23_Witness ==
  /\ op = "applyArrivals"
  /\ returned # Absent
  /\ Len(args) = 2
  /\ Len(before) = 2
  /\ args[1] = [itemId |-> 1, quantity |-> 3]
  /\ args[2] = [itemId |-> 2, quantity |-> 1]
  /\ before[1].pendingArrival = 2 /\ stock[1].pendingArrival = 0
  /\ before[2].pendingArrival = 2 /\ stock[2].pendingArrival = 1
  /\ stock[1].currentStock = before[1].currentStock + 3

\* C24: applyArrivals skips the pairs whose itemId has no record: the list it
\* returns has one entry per pair with an existing id, in input order, each
\* entry the record as that pair left it; the records no pair names are
\* unchanged, no record is added or removed, and a batch of unknown ids only
\* changes nothing.
C24_UnknownIdsSkipped ==
  (op = "applyArrivals" /\ returned # Absent) =>
     LET known == SelectSeq(args, LAMBDA a : IndexOf(before, a.itemId) # 0)
         list == returned[1]
     IN /\ Len(list) = Len(known)
        /\ \A k \in DOMAIN list :
             /\ list[k].id = known[k].itemId
             /\ (\A j \in DOMAIN known : j > k => known[j].itemId # known[k].itemId)
                   => list[k] = stock[IndexOf(stock, list[k].id)]
        /\ Len(stock) = Len(before)
        /\ \A i \in DOMAIN before :
             (\A k \in DOMAIN args : args[k].itemId # before[i].id) => stock[i] = before[i]
        /\ known = <<>> => stock = before

C24_Witness ==
  /\ op = "applyArrivals"
  /\ returned # Absent
  /\ Len(args) = 2
  /\ IndexOf(before, args[1].itemId) = 0
  /\ IndexOf(before, args[2].itemId) # 0
  /\ args[2].quantity > 0
  /\ Len(returned[1]) = 1
  /\ stock # before

\* C25: importStock updates in place the record a row matches by reference,
\* letter case aside (same place, same id and reference; name, currentStock,
\* pendingArrival and threshold taken from the row), and appends exactly one
\* record with a new id for a row that matches none; after the batch every
\* reference of a row is on as many records as before, or on one if it was on
\* none.
C25_ImportUpsert ==
  (op = "importStock" /\ returned # Absent) =>
     LET Matches(store, reference) ==
           {i \in DOMAIN store :
              toLowerCase(store[i].reference) = toLowerCase(reference)}
         Written(id, reference, item) ==
           [id |-> id,
            reference |-> reference,
            name |-> item.name,
            currentStock |-> item.currentStock[1],
            pendingArrival |-> IF item.pendingArrival = Absent THEN 0
                               ELSE item.pendingArrival[1],
            threshold |-> IF item.threshold = Absent THEN 0 ELSE item.threshold[1]]
     IN /\ Len(stock) >= Len(before)
        /\ \A i \in DOMAIN before :
             stock[i].id = before[i].id /\ stock[i].reference = before[i].reference
        /\ \A k \in DOMAIN args :
             Cardinality(Matches(stock, args[k].reference)) =
                IF Matches(before, args[k].reference) = {} THEN 1
                ELSE Cardinality(Matches(before, args[k].reference))
        /\ Len(args) = 1 =>
             LET item == args[1]
                 hits == Matches(before, item.reference)
             IN IF hits # {}
                THEN \E i \in hits :
                        /\ \A j \in hits : i <= j
                        /\ stock = [before EXCEPT
                                      ![i] = Written(before[i].id, before[i].reference, item)]
                ELSE /\ Len(stock) = Len(before) + 1
                     /\ \A i \in DOMAIN before :
                          stock[i] = before[i] /\ stock[Len(stock)].id # before[i].id
                     /\ stock[Len(stock)] =
                          Written(stock[Len(stock)].id, item.reference, item)

C25_Witness ==
  /\ op = "importStock"
  /\ returned # Absent
  /\ Len(args) = 2
  /\ Len(before) = 1
  /\ before[1].reference = "a"
  /\ args[1].reference = "A"
  /\ args[2].reference = "b"
  /\ Len(stock) = 2
  /\ stock[1].id = before[1].id
  /\ stock[1].name = "m" /\ before[1].name = "n"
  /\ stock[2].reference = "b"

\* C26: importStock returns as its count the number of rows of the batch,
\* the rows that created a record and the rows that updated one together.
C26_ImportCount ==
  (op = "importStock" /\ returned # Absent) =>
     /\ returned[1].imported = Len(args)
     /\ returned[1].imported >= Len(stock) - Len(before)

C26_Witness ==
  /\ op = "importStock"
  /\ returned # Absent
  /\ Len(args) = 2
  /\ before # <<>>
  /\ Len(stock) = Len(before) + 1
  /\ returned[1].imported = 2

\* C27: with available = currentStock + pendingArrival (a null pendingArrival
\* or threshold counts as 0), getStockStatus returns critical when
\* available <= 0, else low when available < threshold, else adequate when
\* 2 * available <= 3 * threshold, else high; (0,0,10) is critical, (3,2,10)
\* low, (8,0,10) low as well, (12,0,10) adequate and (20,0,10) high.
C27_StatusDerivation ==
  (op = "getStockStatus" /\ returned # Absent) =>
     LET pending == IF args.pendingArrival = Absent THEN 0 ELSE args.pendingArrival[1]
         limit == IF args.threshold = Absent THEN 0 ELSE args.threshold[1]
         available == args.currentStock + pending
         Example(c, p, t) ==
           args = [currentStock |-> c, pendingArrival |-> <<p>>, threshold |-> <<t>>]
     IN /\ returned[1] = "critical" <=> available <= 0
        /\ returned[1] = "low" <=> (available > 0 /\ available < limit)
        /\ returned[1] = "adequate" <=>
              (available > 0 /\ available >= limit /\ 2 * available <= 3 * limit)
        /\ returned[1] = "high" <=>
              (available > 0 /\ available >= limit /\ 2 * available > 3 * limit)
        /\ Example(0, 0, 10) => returned[1] = "critical"
        /\ Example(3, 2, 10) => returned[1] = "low"
        /\ Example(8, 0, 10) => returned[1] = "low"
        /\ Example(12, 0, 10) => returned[1] = "adequate"
        /\ Example(20, 0, 10) => returned[1] = "high"

C27_Witness ==
  /\ op = "getStockStatus"
  /\ returned = <<"low">>
  /\ args = [currentStock |-> 8, pendingArrival |-> <<0>>, threshold |-> <<10>>]

\* C27 as stated: the same derivation, with (8,0,10) adequate.
C27_AsStated ==
  (op = "getStockStatus" /\ returned # Absent) =>
     LET pending == IF args.pendingArrival = Absent THEN 0 ELSE args.pendingArrival[1]
         limit == IF args.threshold = Absent THEN 0 ELSE args.threshold[1]
         available == args.currentStock + pending
         Example(c, p, t) ==
           args = [currentStock |-> c, pendingArrival |-> <<p>>, threshold |-> <<t>>]
     IN /\ returned[1] = "critical" <=> available <= 0
        /\ returned[1] = "low" <=> (available > 0 /\ available < limit)
        /\ returned[1] = "adequate" <=>
              (available > 0 /\ available >= limit /\ 2 * available <= 3 * limit)
        /\ returned[1] = "high" <=>
              (available > 0 /\ available >= limit /\ 2 * available > 3 * limit)
        /\ Example(0, 0, 10) => returned[1] = "critical"
        /\ Example(3, 2, 10) => returned[1] = "low"
        /\ Example(8, 0, 10) => returned[1] = "adequate"
        /\ Example(20, 0, 10) => returned[1] = "high"

\* C28: getMissingQuantity returns max(0, threshold - (currentStock +
\* pendingArrival)), a null pendingArrival or threshold counting as 0:
\* 5 for threshold 10, stock 3, pending 2 and 0 for threshold 10, stock 12,
\* pending 0.
C28_MissingQuantity ==
  (op = "getMissingQuantity" /\ returned # Absent) =>
     LET pending == IF args.pendingArrival = Absent THEN 0 ELSE args.pendingArrival[1]
         limit == IF args.threshold = Absent THEN 0 ELSE args.threshold[1]
         short == limit - (args.currentStock + pending)
     IN /\ returned[1] = (IF short > 0 THEN short ELSE 0)
        /\ returned[1] >= 0
        /\ args = [currentStock |-> 3, pendingArrival |-> <<2>>, threshold |-> <<10>>]
              => returned[1] = 5
        /\ args = [currentStock |-> 12, pendingArrival |-> <<0>>, threshold |-> <<10>>]
              => returned[1] = 0

C28_Witness ==
  /\ op = "getMissingQuantity"
  /\ returned = <<0>>
  /\ args = [currentStock |-> 12, pendingArrival |-> <<0>>, threshold |-> <<10>>]

\* C29: the last-received-event slot holds the most recently received
\* message of the client that is neither a pong nor undecodable, and null
\* when there was none: a pong and an undecodable frame leave the slot as it
\* is, every other message overwrites it.
C29_SlotHoldsLatest ==
  LET surfaced == SelectSeq(received,
                            LAMBDA m : /\ m.by = "client"
                                       /\ m.frame \notin {"pong", "garbled", "json_null"})
  IN lastMessage = IF surfaced = <<>> THEN "null"
                   ELSE surfaced[Len(surfaced)].frame

C29_Witness ==
  /\ received = <<[by |-> "client", frame |-> "arrival"],
                  [by |-> "client", frame |-> "pong"]>>
  /\ lastMessage = "arrival"

\* C30: a message handler that runs on an undecodable frame changes nothing:
\* at the client the connection state, the socket, the last-received event
\* and the pending queue stay as they are; at the relay nothing is
\* broadcast and no connection is closed or unregistered.
C30_MalformedDiscarded ==
  [][Len(received') > Len(received) =>
       LET m == received'[Len(received')]
       IN /\ (m.by = "client" /\ m.frame \in {"garbled", "json_null"}) =>
                UNCHANGED <<lastMessage, pendingQueue, isConnected, isOnline, wsRef,
                            readyState, lifecycle, reconnectTimers, outbuf>>
          /\ (m.by = "relay" /\ m.frame = "garbled") =>
                UNCHANGED <<delivered, chanState, clients, sendThrows>>]_vars

C30_Witness ==
  /\ received = <<[by |-> "client", frame |-> "garbled"],
                  [by |-> "relay", frame |-> "garbled"]>>
  /\ lastMessage = "null"
  /\ isConnected
  /\ pendingQueue # <<>>
  /\ Cardinality({c \in Registered : chanState[c] = "OPEN"}) >= 2
  /\ delivered = {}

\* C35: an arrival batch of quantities >= 0 reduces the availability
\* (currentStock + pendingArrival) of no record: getMissingQuantity of the
\* record does not increase and getStockStatus does not move to a worse
\* level (critical < low < adequate < high).
C35_ArrivalNeverReducesAvailability ==
  (op = "applyArrivals" /\ returned # Absent) =>
     LET AsItem(r) == [currentStock |-> r.currentStock,
                       pendingArrival |-> <<r.pendingArrival>>,
                       threshold |-> <<r.threshold>>]
         Level(status) == CASE status = "critical" -> 0
                            [] status = "low" -> 1
                            [] status = "adequate" -> 2
                            [] status = "high" -> 3
     IN \A i \in DOMAIN before :
           /\ stock[i].currentStock + stock[i].pendingArrival
                 >= before[i].currentStock + before[i].pendingArrival
           /\ getMissingQuantity(AsItem(stock[i])) <= getMissingQuantity(AsItem(before[i]))
           /\ Level(getStockStatus(AsItem(stock[i])))
                 >= Level(getStockStatus(AsItem(before[i])))

C35_Witness ==
  /\ op = "applyArrivals"
  /\ returned # Absent
  /\ Len(before) = 2
  /\ args = <<[itemId |-> 1, quantity |-> 1], [itemId |-> 2, quantity |-> 3]>>
  /\ before[1].currentStock = 0 /\ before[1].pendingArrival = 2
  /\ stock[1].currentStock = 1 /\ stock[1].pendingArrival = 1
  /\ before[2].currentStock = 1 /\ before[2].pendingArrival = 0
  /\ stock[2].currentStock = 4 /\ stock[2].pendingArrival = 0

\* C37: applyArrivals creates and deletes no record, leaves the records the
\* batch does not name as they were, and changes nothing but currentStock
\* and pendingArrival of the records it names: id, reference, name and
\* threshold stay.
C37_ArrivalFrame ==
  (op = "applyArrivals" /\ returned # Absent) =>
     /\ Len(stock) = Len(before)
     /\ \A i \in DOMAIN before :
          /\ stock[i].id = before[i].id
          /\ stock[i].reference = before[i].reference
          /\ stock[i].name = before[i].name
          /\ stock[i].threshold = before[i].threshold
          /\ (\A k \in DOMAIN args : args[k].itemId # before[i].id)
                => stock[i] = before[i]

C37_Witness ==
  /\ op = "applyArrivals"
  /\ returned # Absent
  /\ Len(before) = 2
  /\ args = <<[itemId |-> 2, quantity |-> 3]>>
  /\ stock[1] = before[1]
  /\ stock[2] = [before[2] EXCEPT !.currentStock = @ + 3, !.pendingArrival = 0]
  /\ before[2].pendingArrival = 2

\* C38: the pairs of a batch that name the same record are applied one after
\* the other: currentStock grows by the sum of their quantities,
\* pendingArrival is clamped at 0 after each pair (with quantities >= 0 it
\* ends at max(0, old - sum)), the returned list has one entry per pair, and
\* the records after the batch are the same for the pairs in reverse order.
C38_RepeatedPairsAccumulate ==
  (op = "applyArrivals" /\ returned # Absent) =>
     LET RECURSIVE SumFrom(_, _)
         SumFrom(k, id) ==
           IF k > Len(args) THEN 0
           ELSE (IF args[k].itemId = id THEN args[k].quantity ELSE 0) + SumFrom(k + 1, id)
         Sum(id) == SumFrom(1, id)
         reversed == [k \in 1..Len(args) |-> args[Len(args) + 1 - k]]
     IN /\ \A i \in DOMAIN before :
             /\ stock[i].currentStock = before[i].currentStock + Sum(before[i].id)
             /\ stock[i].pendingArrival =
                   (IF before[i].pendingArrival - Sum(before[i].id) > 0
                    THEN before[i].pendingArrival - Sum(before[i].id) ELSE 0)
        /\ Len(returned[1]) =
              Cardinality({k \in DOMAIN args : IndexOf(before, args[k].itemId) # 0})
        /\ applyArrivals(before, reversed) = stock

C38_Witness ==
  /\ op = "applyArrivals"
  /\ returned # Absent
  /\ args = <<[itemId |-> 1, quantity |-> 1], [itemId |-> 1, quantity |-> 3]>>
  /\ Len(before) >= 1
  /\ before[1].currentStock = 1 /\ before[1].pendingArrival = 2
  /\ stock[1].currentStock = 5 /\ stock[1].pendingArrival = 0
  /\ Len(returned[1]) = 2
  /\ returned[1][1].pendingArrival = 1

\* C39: importStock keeps the references unique: on a store in which no two
\* records have the same reference, letter case aside, a batch (rows with
\* the same reference in any letter case included) leaves such a store, and
\* adds as many records as the rows have distinct lower-cased references
\* that no record had.
C39_ImportKeepsReferencesUnique ==
  LET Unique(store) ==
        \A i, j \in DOMAIN store :
           toLowerCase(store[i].reference) = toLowerCase(store[j].reference) => i = j
      Held == {toLowerCase(before[i].reference) : i \in DOMAIN before}
      Unmatched == {toLowerCase(args[k].reference) : k \in DOMAIN args} \ Held
  IN (op = "importStock" /\ returned # Absent /\ Unique(before)) =>
        /\ Unique(stock)
        /\ Len(stock) - Len(before) = Cardinality(Unmatched)

C39_Witness ==
  /\ op = "importStock"
  /\ returned # Absent
  /\ Len(before) = 1
  /\ before[1].reference = "b"
  /\ Len(args) = 2
  /\ args[1].reference = "a"
  /\ args[2].reference = "A"
  /\ Len(stock) = 2
  /\ stock[2].reference = "a"
  /\ stock[2].currentStock = args[2].currentStock[1]

\* C32: once the page of a connected peer has handled the SyncMessage of a
\* mutation, its records agree with the store for the records concerned: the
\* record created, updated or deleted for stock_create, stock_update and
\* stock_delete, all records for full_sync, arrival and import.
C32_PeerCacheAgrees ==
  (notice # Absent /\ notice[1].handled) =>
     IF notice[1].type \in {"stock_create", "stock_update", "stock_delete"}
     THEN LET i == IndexOf(stock, notice[1].payload.id)
              j == IndexOf(cache, notice[1].payload.id)
          IN IF i = 0 THEN j = 0
             ELSE j # 0 /\ cache[j] = stock[i]
     ELSE cache = stock

\* C36: the status and the missing quantity of an item agree: a missing
\* quantity above 0 means the status is critical or low, the status low means
\* a missing quantity above 0, and an adequate or high item has the missing
\* quantity 0.
C36_StatusAgreesWithMissing ==
  (op = "derived" /\ returned # Absent) =>
     /\ returned[1].missing > 0 => returned[1].status \in {"critical", "low"}
     /\ returned[1].status = "low" => returned[1].missing > 0
     /\ returned[1].status \in {"adequate", "high"} => returned[1].missing = 0

C36_Witness ==
  /\ op = "derived"
  /\ args = [currentStock |-> 10, pendingArrival |-> <<0>>, threshold |-> <<10>>]
  /\ returned = <<[status |-> "adequate", missing |-> 0]>>

\* C33: the relay receives the events of the client in the order in which
\* sendMessage was called with them (the events are numbered in that order).
C33_SendOrderPreserved ==
  \A i, j \in DOMAIN relayReceived : i < j => relayReceived[i] < relayReceived[j]

\* C34: the client creates no socket while navigator.onLine is false: every
\* step that makes a socket CONNECTING ends with the presence signal online.
C34_NoConnectWhileOffline ==
  [][(\E s \in Sockets : readyState[s] # "CONNECTING" /\ readyState'[s] = "CONNECTING")
        => navOnline']_vars

\* C31: keep-alive traffic is not surfaced: the relay delivers the ping of a
\* client to no other client, and the last-received-event slot of a client
\* holds null or a message whose type is a SyncEvent kind.
C31_KeepAliveNotSurfaced ==
  /\ \A d \in delivered : d[2] # "ping"
  /\ lastMessage \in {"null"} \cup SyncKinds

\* C7: every record of the store has currentStock >= 0 and pendingArrival >= 0.
C7_StockNonNegative ==
  \A i \in DOMAIN stock : stock[i].currentStock >= 0 /\ stock[i].pendingArrival >= 0

(***************************************************************************)
(* DerivedSpec: one call of getStockStatus or getMissingQuantity.          *)
(***************************************************************************)
DerivedNext ==
  \/ CallGetStockStatus /\ CallFrame
  \/ CallGetMissingQuantity /\ CallFrame
  \/ CallBoth /\ CallFrame

DerivedStart ==
  ClientInit /\ navOnline = TRUE /\ RelayInit /\ StoreInit /\ HandlerIdle /\ DerivedInit

DerivedSpec == DerivedStart /\ [][DerivedNext]_vars

(***************************************************************************)
(* InboxSpec: the message handlers of the client and of the relay. The     *)
(* provider stays mounted and its socket stays open once it is; the frames *)
(* a socket receives are those of Frames a server sends, the frames a      *)
(* connection's client sends are a SyncMessage or text that is no JSON.    *)
(***************************************************************************)
InboxFrame ==
  ObserveOffline
    /\ UNCHANGED <<sinceOnline, offlineEdits, relayVars, storeVars, handlerVars, callVars,
                   pageVars>>

InboxNext ==
  \/ Mount /\ QueueFrame
  \/ \E s \in Sockets : SocketOpen(s) /\ QueueFrame
  \/ Send /\ QueueFrame
  \/ FlushEffect /\ QueueFrame
  \/ \E s \in Sockets, frame \in Frames \ {"ping"} : Incoming(s, frame) /\ InboxFrame
  \/ \E c \in Channels : Connection(c) /\ RelayFrame
  \/ \E c \in Channels, frame \in {"garbled", "arrival"} : ClientSends(c, frame) /\ RelayFrame
  \/ \E c \in Channels :
        OnMessage(c) /\ Hears(c)
          /\ UNCHANGED <<clientVars, storeVars, handlerVars, callVars, pageVars>>

InboxSpec == Start /\ [][InboxNext]_vars

(***************************************************************************)
(* PeerSpec: the mutation endpoints and the page of a peer that is         *)
(* connected throughout. The requests are valid ones, made one after the   *)
(* peer has handled the event of the one before.                           *)
(***************************************************************************)
PeerFrame == UNCHANGED <<clientVars, relayVars, handlerVars, callVars, inboxVars>>

PeerNext ==
  \/ \E item \in {b \in InsertBodies : ValidInsert(b)} :
        Handled /\ PostStock(item) /\ Notified(stock'[Len(stock')]) /\ PeerFrame
  \/ \E id \in Ids, item \in {b \in UpdateBodies : ValidUpdate(b)} :
        Handled /\ PutStock(id, item) /\ Notified(stock'[IndexOf(stock', id)]) /\ PeerFrame
  \/ \E id \in Ids :
        Handled /\ DeleteStock(id) /\ Notified([id |-> id]) /\ PeerFrame
  \/ \E arrivals \in Batches({a \in ArrivalPairs : ValidArrival(a)}, MaxBatch) :
        Handled /\ PostArrivals(arrivals) /\ Notified(UpdatedItems(stock, arrivals))
          /\ PeerFrame
  \/ \E items \in Batches({r \in ImportRows : ValidInsert(r)}, MaxRows) :
        Handled /\ PostImport(items)
          /\ Notified([imported |-> importStock(stock, nextId, items).imported])
          /\ PeerFrame
  \/ PageEffect /\ PeerFrame

PeerSpec == Start /\ [][PeerNext]_vars

(***************************************************************************)
(* KeepAliveSpec: the keep-alive of the clients through the relay. The     *)
(* client of a connection sends SyncMessages and the pings of its          *)
(* interval; the socket of the client under study receives what the relay  *)
(* has broadcast, and pongs.                                               *)
(***************************************************************************)
KeepAliveNext ==
  \/ Mount /\ QueueFrame
  \/ \E s \in Sockets : SocketOpen(s) /\ QueueFrame
  \/ \E s \in Sockets, frame \in {"pong", "ping", "arrival"} :
        Incoming(s, frame) /\ InboxFrame
  \/ \E c \in Channels : Connection(c) /\ RelayFrame
  \/ \E c \in Channels, frame \in {"ping", "arrival"} : ClientSends(c, frame) /\ RelayFrame
  \/ \E c \in Channels :
        OnMessage(c) /\ Hears(c)
          /\ UNCHANGED <<clientVars, storeVars, handlerVars, callVars, pageVars>>

KeepAliveSpec == Start /\ [][KeepAliveNext]_vars

====
